---- MODULE Spec2Model ----
(***************************************************************************)
(* Update-check orchestration of the COSMIC package-updater applet:        *)
(* UpdateChecker::check_updates (package_manager.rs) run by several applet *)
(* instances that share one lock file and one sync file.                   *)
(***************************************************************************)
EXTENDS Integers, Sequences, FiniteSets, TLC

\* Number of check_updates invocations that may be in flight at once.
NumChecks == 2
\* Longest command output (in lines) the external tools produce.
MaxLines == 1

\* Number of applet instances (one per panel) that share the runtime directory.
NumInstances == 2
\* Longest backlog of a watcher's channel and of an applet's pending messages.
MaxQueue == 2
\* Timer ticks, button presses, terminal runs and start-up checks still to come.
MaxTriggers == 3

SYNC_DEBOUNCE_SECS == 10

\* Largest total_updates has_updates is asked about.
MaxTotal == 3
\* Longest line (in pieces: a word, a number, an arrow, a blank, a tab) the
\* Arch branch of parse_package_line is given.
MaxPieces == 5

\* Most lines in the stdout handed to parse_update_output
MaxOutLines == 2

\* Most lines in the output handed to parse_nixos_rebuild_output
MaxNixLines == 3

\* Most terminal updates one applet launches
MaxLaunches == 3

Chk == 1..NumChecks

Inst == 1..NumInstances

PackageManagers ==
    {"Pacman", "Paru", "Yay", "Apt", "Dnf", "Zypper", "Apk", "Flatpak", "NixOS"}

NixOSModes == {"Channels", "Flakes"}

\* PackageUpdaterConfig, restricted to the fields check_updates receives.
\* nixos_config.mode keeps its default (Flakes) unless the manager is NixOS.
Configs ==
    {cfg \in [package_manager : PackageManagers,
              include_aur_updates : BOOLEAN,
              nixos_mode : NixOSModes] :
        cfg.package_manager # "NixOS" => cfg.nixos_mode = "Flakes"}

\* Variant: plain pacman is taken for an AUR helper too.
supports_aur_arch_family(pm) == pm \in {"Pacman", "Paru", "Yay"}

supports_aur(pm) == pm \in {"Paru", "Yay"}

VARIABLES
    config,       \* the configuration every instance loaded
    pc,           \* position of each check_updates invocation
    lock,         \* lock[c]: invocation c owns a File on which flock succeeded
    update_info,  \* the UpdateInfo each invocation is building
    result,       \* what the invocation returned to its caller
    log,          \* what the running invocation has done so far, in order
                  \* ("priv": the query ran nixos-rebuild as root)
    sync_file,    \* the sync file in the runtime directory
    applet,       \* the fields of each CosmicAppletPackageUpdater
    owner,        \* the applet that spawned each invocation (0: none modelled)
    inbox,        \* the messages waiting for each applet's update()
    watcher,      \* each applet's watch_sync_file stream and its channel
    triggers,     \* external triggers still to come
    terminal,     \* the marker file of the applet's terminal updates, and
                  \* each update launched: its task and its command
    call,         \* a function looked at on its own: its name and arguments
    ret           \* what that call returned

app_vars == <<applet, owner, inbox, watcher, triggers>>

vars == <<config, pc, lock, update_info, result, log, sync_file,
          applet, owner, inbox, watcher, triggers, terminal, call, ret>>

----------------------------------------------------------------------------
\* Data

UpdateInfo_new ==
    [total_updates |-> 0, official_updates |-> 0, aur_updates |-> 0,
     packages |-> <<>>]

NoResult == [status |-> "none", error |-> "", cause |-> ""]
OkResult == [status |-> "Ok", error |-> "", cause |-> ""]
ErrResult(msg, e) == [status |-> "Err", error |-> msg, cause |-> e]

PackageUpdate(n, aur) == [name |-> n, is_aur |-> aur]

Ok(pkgs, np) == [ok |-> TRUE, pkgs |-> pkgs, err |-> "", priv |-> np]
Err(e, np) == [ok |-> FALSE, pkgs |-> <<>>, err |-> e, priv |-> np]

\* Option<Instant>, kept as the whole seconds elapsed since the instant.
None == [is_some |-> FALSE, elapsed |-> 0]
Some(e) == [is_some |-> TRUE, elapsed |-> e]

\* The elapsed times told apart: below the threshold, the threshold, and
\* anything beyond it.
ElapsedValues == <<0, SYNC_DEBOUNCE_SECS, SYNC_DEBOUNCE_SECS + 1>>

\* The applet as init builds it.
applet_new ==
    [update_info |-> UpdateInfo_new, last_check |-> None,
     checking_updates |-> FALSE, error_message |-> "",
     ignore_next_sync |-> TRUE]

\* No function is being looked at on its own.
NoCall == [fn |-> "none"]

\* The stream of an applet that has not been started; rx counts the events
\* waiting in its channel.
watcher_new == [pc |-> "off", rx |-> 0]

\* How many messages of each kind wait for update().
inbox_new == [CheckForUpdates |-> 0, SyncFileChanged |-> 0]

\* No terminal update has been launched and no marker file is left.
terminal_new ==
    [marker |-> FALSE,
     run |-> [t \in 1..MaxLaunches |-> [task |-> "none", command |-> "none"]]]

----------------------------------------------------------------------------
\* The cross-process lock

IoOutcomes == {"ok", "open_err", "flock_errno"}

\* Variant: the lock is taken shared, so holders do not exclude each other.
flock_shared(c, io) == IF io = "flock_errno" THEN "errno" ELSE "ok"

\* flock(fd, LockExclusiveNonblock) on a fresh open file description of the
\* lock file: the kernel refuses while another description holds the lock.
flock(c, io) ==
    IF \E d \in Chk \ {c} : lock[d] THEN "EWOULDBLOCK"
    ELSE IF io = "flock_errno" THEN "errno"
    ELSE "ok"

\* Variant: EWOULDBLOCK has no arm of its own and ends as an I/O error.
acquire_lock_no_busy_arm(c, io) ==
    IF io = "open_err" THEN "lock_io_err"
    ELSE IF flock(c, io) = "ok" THEN "lock_ok" ELSE "lock_io_err"

\* acquire_lock: the outcome, named as it is entered in the log. Both a
\* failure to open the file and an flock errno other than EWOULDBLOCK are
\* I/O errors.
acquire_lock(c, io) ==
    IF io = "open_err" THEN "lock_io_err"
    ELSE LET r == flock(c, io) IN
         IF r = "ok" THEN "lock_ok"
         ELSE IF r = "EWOULDBLOCK" THEN "lock_busy"
         ELSE "lock_io_err"

\* The text of the anyhow error acquire_lock returns.
lock_error_text(ev) ==
    IF ev = "lock_busy" THEN "Another instance is checking for updates"
    ELSE "Failed to acquire lock"

\* Variant: the File is leaked (never closed) when the check returns.
drop_lock_forgotten(c) == lock

\* Dropping the File closes the descriptor, which releases the flock.
drop_lock(c) == [lock EXCEPT ![c] = FALSE]

----------------------------------------------------------------------------
\* External commands and the parsing of their output

\* A line of a tool's stdout: one that fits the manager's grammar, one that
\* does not, or a blank one.
LineKinds == {"pkg", "junk", "blank"}

Stdouts == UNION {[1..n -> LineKinds] : n \in 0..MaxLines}

ExitCodes == {0, 1, 2, 100}

\* Outcome of TokioCommand::new(cmd).args(..).output().
SpawnFailed == [spawn |-> FALSE, exit |-> 0, stdout |-> <<>>]
CmdOutcomes ==
    {SpawnFailed} \cup [spawn : {TRUE}, exit : ExitCodes, stdout : Stdouts]

official_cmd(pm) ==
    CASE pm \in {"Pacman", "Paru", "Yay"} -> "checkupdates"
      [] pm = "Apt" -> "apt"
      [] pm = "Dnf" -> "dnf"
      [] pm = "Zypper" -> "zypper"
      [] pm = "Apk" -> "apk"
      [] pm = "Flatpak" -> "flatpak"
      [] OTHER -> "nixos"

aur_cmd(pm) == IF pm = "Paru" THEN "paru" ELSE "yay"

trim_is_empty(stdout) == \A i \in 1..Len(stdout) : stdout[i] = "blank"

\* Variant: the entry never carries the is_aur argument.
parse_package_line_unflagged(pm, i, is_aur) ==
    PackageUpdate("pkg" \o ToString(i), FALSE)

\* parse_package_line: the entry of a line that fits the grammar. Only the
\* Arch-family branch carries the is_aur argument into the entry.
parse_package_line(pm, i, is_aur) ==
    PackageUpdate("pkg" \o ToString(i),
                  IF pm \in {"Pacman", "Paru", "Yay"} THEN is_aur ELSE FALSE)

parse_lines(pm, stdout, is_aur) ==
    LET fit == SelectSeq(stdout, LAMBDA l : l = "pkg")
    IN [k \in 1..Len(fit) |-> parse_package_line(pm, k, is_aur)]

parse_update_output(pm, cmd, o, is_aur) ==
    IF ~o.spawn THEN Err("spawn", 0)
    ELSE IF o.exit # 0
            /\ ((cmd = "checkupdates" /\ o.exit = 2)
                \/ (cmd \in {"paru", "yay"} /\ o.exit = 1))
         THEN Ok(<<>>, 0)
    ELSE IF o.exit # 0
            /\ ~(cmd = "dnf" /\ o.exit = 100)
            /\ trim_is_empty(o.stdout)
         THEN Err("exit", 0)
    ELSE Ok(parse_lines(pm, o.stdout, is_aur), 0)

\* nixos-rebuild dry-build output, reduced to the two counts it announces.
NixOutputs == [build : 0..MaxLines, fetch : 0..MaxLines]

parse_nixos_rebuild_output(out) ==
    (IF out.build > 0 THEN <<PackageUpdate("System Update", FALSE)>> ELSE <<>>)
    \o (IF out.fetch > 0 THEN <<PackageUpdate("Downloads", FALSE)>> ELSE <<>>)

\* What the privilege-escalation collaborators answer during one query.
ChannelsEnvs ==
    [polkit : {"unavailable", "denied", "exec_fail", "exec_ok"},
     sudo1 : {"ok", "fail"},
     passwordless : BOOLEAN,
     sudo2 : {"ok", "perm", "fail", "spawn_err"},
     out : NixOutputs]

\* polkit::execute_privileged: pkexec first, then sudo. priv counts the
\* invocations of nixos-rebuild as root.
execute_privileged(env) ==
    IF env.polkit = "exec_ok" THEN [ok |-> TRUE, priv |-> 1]
    ELSE LET n == IF env.polkit = "exec_fail" THEN 1 ELSE 0 IN
         [ok |-> env.sudo1 = "ok", priv |-> n + 1]

sudo_fallback(env, n) ==
    IF ~env.passwordless THEN Err("requires_passwordless_sudo", n)
    ELSE CASE env.sudo2 = "spawn_err" -> Err("spawn", n)
           [] env.sudo2 = "perm" -> Err("permission_denied", n + 1)
           [] env.sudo2 = "fail" -> Err("nixos_rebuild_failed", n + 1)
           [] OTHER -> Ok(parse_nixos_rebuild_output(env.out), n + 1)

check_nixos_channels(env) ==
    IF env.polkit # "unavailable"
    THEN LET p == execute_privileged(env) IN
         IF p.ok THEN Ok(parse_nixos_rebuild_output(env.out), p.priv)
         ELSE sudo_fallback(env, p.priv)
    ELSE sudo_fallback(env, 0)

FlakesEnvs ==
    [flake_lock : BOOLEAN,
     update : {"spawn_err", "up_to_date", "listed"},
     inputs : 0..MaxLines,
     rebuild_spawn : BOOLEAN,
     out : NixOutputs]

parse_flake_updates(n) ==
    [i \in 1..n |-> PackageUpdate("flake:" \o ToString(i), FALSE)]

check_nixos_flakes(env) ==
    IF ~env.flake_lock THEN Err("flake_lock_missing", 0)
    ELSE IF env.update = "up_to_date" THEN Ok(<<>>, 0)
    ELSE LET all_updates == IF env.update = "listed"
                            THEN parse_flake_updates(env.inputs) ELSE <<>>
         IN IF all_updates # <<>> /\ env.rebuild_spawn
            THEN Ok(all_updates \o parse_nixos_rebuild_output(env.out), 0)
            ELSE Ok(all_updates, 0)

check_nixos_updates(cfg, env) ==
    IF cfg.nixos_mode = "Channels" THEN check_nixos_channels(env)
    ELSE check_nixos_flakes(env)

\* The answers the environment can give to one official query.
OfficialEnvs(cfg) ==
    IF cfg.package_manager # "NixOS" THEN CmdOutcomes
    ELSE IF cfg.nixos_mode = "Channels" THEN ChannelsEnvs
    ELSE FlakesEnvs

check_official_updates(cfg, env) ==
    IF cfg.package_manager = "NixOS" THEN check_nixos_updates(cfg, env)
    ELSE parse_update_output(cfg.package_manager,
                             official_cmd(cfg.package_manager), env, FALSE)

check_aur_updates(cfg, env) ==
    IF cfg.package_manager \in {"Paru", "Yay"}
    THEN parse_update_output(cfg.package_manager,
                             aur_cmd(cfg.package_manager), env, TRUE)
    ELSE Ok(<<>>, 0)

\* How a failed official query shows in the log.
official_err_event(e) ==
    IF e \in {"requires_passwordless_sudo", "permission_denied"}
    THEN "official_err_perm"
    ELSE IF e = "flake_lock_missing" THEN "official_err_flake"
    ELSE "official_err"

----------------------------------------------------------------------------
\* check_updates, one action per run of code between two suspension points
\* (an external command, a sleep) or two system calls other processes can
\* observe (the sync-file write, the release of the lock).

\* What the environment can make a query return.
official_outcomes ==
    [cfg \in Configs |->
        {check_official_updates(cfg, env) : env \in OfficialEnvs(cfg)}]

aur_outcomes ==
    [cfg \in Configs |-> {check_aur_updates(cfg, env) : env \in CmdOutcomes}]

\* The log is kept in full for an invocation looked at on its own; of one
\* an applet spawned only the latest event is kept.
Logged(c, evs) ==
    [log EXCEPT ![c] =
        IF owner[c] = 0 THEN @ \o evs ELSE <<evs[Len(evs)]>>]

\* Variant: the total is the official count alone.
aggregate_official_only(info) ==
    [info EXCEPT !.total_updates = info.official_updates]

\* Step 3: update_info.total_updates = update_info.packages.len()
aggregate(info) == [info EXCEPT !.total_updates = Len(info.packages)]

\* Variant: the check returns without notifying.
to_aggregate_no_notify == [pc |-> "return_ok", ev |-> <<"total">>]

\* Both phases have resolved: aggregate, then notify.
to_aggregate == [pc |-> "notify", ev |-> <<"total">>]

\* Once the official phase has resolved: the AUR phase runs only for an AUR
\* helper with include_aur set.
after_official(cfg) ==
    IF cfg.include_aur_updates /\ supports_aur(cfg.package_manager)
    THEN [pc |-> "aur1_run", ev |-> <<"aur_start">>]
    ELSE to_aggregate

\* Variant: a failed retry of the official query aborts the check.
on_official_failure_abort(p, cfg) ==
    IF p = "official1_run" THEN [pc |-> "official_sleep", ev |-> <<>>]
    ELSE [pc |-> "return_err", ev |-> <<>>]

\* Variant: a failed official query is not retried.
on_official_failure_no_retry(p, cfg) == after_official(cfg)

\* Where a failed official query leads: the retry, or on to the next phase.
on_official_failure(p, cfg) ==
    IF p = "official1_run" THEN [pc |-> "official_sleep", ev |-> <<>>]
    ELSE after_official(cfg)

\* Variant: the AUR query is retried for as long as it fails.
on_aur_failure_again(p) == [pc |-> "aur_sleep", ev |-> <<>>]

\* Variant: a failed retry of the AUR query ends the check at once.
on_aur_failure_returns(p) ==
    IF p = "aur1_run" THEN [pc |-> "aur_sleep", ev |-> <<>>]
    ELSE [pc |-> "return_ok", ev |-> <<>>]

\* Where a failed AUR query leads.
on_aur_failure(p) ==
    IF p = "aur1_run" THEN [pc |-> "aur_sleep", ev |-> <<>>]
    ELSE to_aggregate

\* Variant: the retry loops instead of giving up.
on_lock_retry_failure_again == "lock_sleep"

\* Where a failed retry of acquire_lock leads.
on_lock_retry_failure == "return_err"

\* No invocation is running and every applet is as init left it.
Started ==
    /\ pc = [c \in Chk |-> "idle"]
    /\ lock = [c \in Chk |-> FALSE]
    /\ update_info = [c \in Chk |-> UpdateInfo_new]
    /\ result = [c \in Chk |-> NoResult]
    /\ log = [c \in Chk |-> <<>>]
    /\ applet = [i \in Inst |-> applet_new]
    /\ owner = [c \in Chk |-> 0]
    /\ inbox = [i \in Inst |-> inbox_new]
    /\ watcher = [i \in Inst |-> watcher_new]
    /\ terminal = terminal_new
    /\ call = NoCall
    /\ ret = NoCall

\* check_updates on its own: the applets that call it stay out of the
\* picture.
Init ==
    /\ config \in Configs
    /\ Started
    /\ sync_file = "absent"
    /\ triggers = 0

\* Message::CheckForUpdates: the applet spawns check_updates. Invocations
\* are anonymous: a new one takes the lowest free slot.
CheckForUpdates(c) ==
    /\ pc[c] = "idle"
    /\ \A d \in Chk : d < c => pc[d] # "idle"
    /\ pc' = [pc EXCEPT ![c] = "acquire1"]
    /\ UNCHANGED <<terminal, call, ret, config, lock, update_info, result, log, sync_file>>
    /\ UNCHANGED app_vars

\* Variant: the check goes on to its queries without the lock.
LockObtained_not_held(c, evs) ==
    /\ update_info' = [update_info EXCEPT ![c] = UpdateInfo_new]
    /\ pc' = [pc EXCEPT ![c] = "official1_run"]
    /\ log' = Logged(c, evs \o <<"lock_ok", "official_start">>)
    /\ UNCHANGED lock

\* The lock was obtained: update_info is created and the official query
\* is issued.
LockObtained(c, evs) ==
    /\ lock' = [lock EXCEPT ![c] = TRUE]
    /\ update_info' = [update_info EXCEPT ![c] = UpdateInfo_new]
    /\ pc' = [pc EXCEPT ![c] = "official1_run"]
    /\ log' = Logged(c, evs \o <<"lock_ok", "official_start">>)

\* First acquire_lock of check_updates.
AcquireLockFirst(c) ==
    /\ pc[c] = "acquire1"
    /\ \E io \in IoOutcomes :
         LET ev == acquire_lock(c, io) IN
         IF ev = "lock_ok"
         THEN LockObtained(c, <<>>)
         ELSE /\ pc' = [pc EXCEPT ![c] = "lock_sleep"]
              /\ log' = Logged(c, <<ev>>)
              /\ UNCHANGED <<lock, update_info>>
    /\ UNCHANGED <<terminal, call, ret, config, result, sync_file>>
    /\ UNCHANGED app_vars

\* sleep(LOCK_RETRY_DELAY_SECS) elapses and acquire_lock is retried once.
AcquireLockRetry(c) ==
    /\ pc[c] = "lock_sleep"
    /\ \E io \in IoOutcomes :
         LET ev == acquire_lock(c, io) IN
         IF ev = "lock_ok"
         THEN LockObtained(c, <<"lock_delay">>)
         ELSE /\ pc' = [pc EXCEPT ![c] = on_lock_retry_failure]
              /\ log' = Logged(c, <<"lock_delay", ev>>)
              /\ UNCHANGED <<lock, update_info>>
    /\ UNCHANGED <<terminal, call, ret, config, result, sync_file>>
    /\ UNCHANGED app_vars

\* return Err(anyhow!("Update check already in progress: {}", e))
ReturnErr(c) ==
    /\ pc[c] = "return_err"
    /\ result' = [result EXCEPT ![c] =
            ErrResult("Update check already in progress",
                      lock_error_text(log[c][Len(log[c])]))]
    /\ pc' = [pc EXCEPT ![c] = "returned"]
    /\ log' = [log EXCEPT ![c] = <<>>]
    /\ UNCHANGED <<terminal, call, ret, config, lock, update_info, sync_file>>
    /\ UNCHANGED app_vars

\* The official query (first attempt or retry) resolves.
FinishOfficial(c) ==
    /\ pc[c] \in {"official1_run", "official2_run"}
    /\ \E r \in official_outcomes[config] :
         LET info == IF r.ok
                     THEN [update_info[c] EXCEPT
                              !.official_updates = Len(r.pkgs),
                              !.packages = @ \o r.pkgs]
                     ELSE update_info[c]
             nxt == IF r.ok THEN after_official(config)
                    ELSE on_official_failure(pc[c], config)
         IN /\ pc' = [pc EXCEPT ![c] = nxt.pc]
            /\ log' = Logged(c, (IF r.priv > 0 THEN <<"priv">> ELSE <<>>)
                        \o <<IF r.ok THEN "official_ok"
                             ELSE official_err_event(r.err)>>
                        \o nxt.ev)
            /\ update_info' = [update_info EXCEPT ![c] =
                    IF nxt.pc = "notify" THEN aggregate(info) ELSE info]
    /\ UNCHANGED <<terminal, call, ret, config, lock, result, sync_file>>
    /\ UNCHANGED app_vars

\* sleep(UPDATE_RETRY_DELAY_SECS) elapses and the official query is retried.
OfficialRetry(c) ==
    /\ pc[c] = "official_sleep"
    /\ pc' = [pc EXCEPT ![c] = "official2_run"]
    /\ log' = Logged(c, <<"official_delay", "official_start">>)
    /\ UNCHANGED <<terminal, call, ret, config, lock, update_info, result, sync_file>>
    /\ UNCHANGED app_vars

\* The AUR query (first attempt or retry) resolves.
FinishAur(c) ==
    /\ pc[c] \in {"aur1_run", "aur2_run"}
    /\ \E r \in aur_outcomes[config] :
         LET info == IF r.ok
                     THEN [update_info[c] EXCEPT
                              !.aur_updates = Len(r.pkgs),
                              !.packages = @ \o r.pkgs]
                     ELSE update_info[c]
             nxt == IF r.ok THEN to_aggregate ELSE on_aur_failure(pc[c])
         IN /\ pc' = [pc EXCEPT ![c] = nxt.pc]
            /\ log' = Logged(c, <<IF r.ok THEN "aur_ok" ELSE "aur_err">>
                        \o nxt.ev)
            /\ update_info' = [update_info EXCEPT ![c] =
                    IF nxt.pc = "notify" THEN aggregate(info) ELSE info]
    /\ UNCHANGED <<terminal, call, ret, config, lock, result, sync_file>>
    /\ UNCHANGED app_vars

\* sleep(UPDATE_RETRY_DELAY_SECS) elapses and the AUR query is retried.
AurRetry(c) ==
    /\ pc[c] = "aur_sleep"
    /\ pc' = [pc EXCEPT ![c] = "aur2_run"]
    /\ log' = Logged(c, <<"aur_delay", "aur_start">>)
    /\ UNCHANGED <<terminal, call, ret, config, lock, update_info, result, sync_file>>
    /\ UNCHANGED app_vars

\* Variant: the watcher lets the events pass unseen.
observed_dropped(n) == watcher

\* What every watcher subscribed to the sync file receives when the file is
\* written: the callback sends one unit per modify event.
observed(n) ==
    [i \in Inst |->
        IF watcher[i].pc = "watching"
        THEN [watcher[i] EXCEPT !.rx = @ + n]
        ELSE watcher[i]]

Room(n) ==
    \A i \in Inst :
        watcher[i].pc = "watching" => watcher[i].rx + n <= MaxQueue

\* The truncation and the write each raise a modify event; the kernel may
\* merge the two.
EventsPerWrite == {1, 2}

\* notify_check_completed: truncate and rewrite the sync file; a failure to
\* open it is ignored.
notify_check_completed(c) ==
    /\ pc[c] = "notify"
    /\ \E io \in {"ok", "open_err"} :
         IF io = "ok"
         THEN \E n \in EventsPerWrite :
                /\ Room(n)
                /\ sync_file' = "timestamp"
                /\ watcher' = observed(n)
         ELSE UNCHANGED <<sync_file, watcher>>
    /\ pc' = [pc EXCEPT ![c] = "return_ok"]
    /\ log' = Logged(c, <<"notify">>)
    /\ UNCHANGED <<terminal, call, ret, config, lock, update_info, result>>
    /\ UNCHANGED <<applet, owner, inbox, triggers>>

\* Ok(update_info): _lock goes out of scope.
ReturnOk(c) ==
    /\ pc[c] = "return_ok"
    /\ lock' = drop_lock(c)
    /\ result' = [result EXCEPT ![c] = OkResult]
    /\ pc' = [pc EXCEPT ![c] = "returned"]
    /\ log' = [log EXCEPT ![c] = <<>>]
    /\ UNCHANGED <<terminal, call, ret, config, update_info, sync_file>>
    /\ UNCHANGED app_vars

\* Variant: the returned UpdateInfo is stored whatever the result.
updates_checked_stores_always(a, res, info) ==
    [a EXCEPT !.checking_updates = FALSE, !.update_info = info,
              !.last_check = Some(0),
              !.error_message = res.error]

\* The applet after Message::UpdatesChecked(result).
updates_checked(a, res, info) ==
    IF res.status = "Ok"
    THEN [a EXCEPT !.checking_updates = FALSE, !.update_info = info,
                   !.last_check = Some(0), !.error_message = ""]
    ELSE [a EXCEPT !.checking_updates = FALSE, !.error_message = res.error]

\* Message::UpdatesChecked: the result is delivered to the applet that
\* spawned the invocation, the task is gone.
UpdatesChecked(c) ==
    /\ pc[c] = "returned"
    /\ pc' = [pc EXCEPT ![c] = "idle"]
    /\ result' = [result EXCEPT ![c] = NoResult]
    /\ update_info' = [update_info EXCEPT ![c] = UpdateInfo_new]
    /\ applet' = IF owner[c] = 0 THEN applet
                 ELSE [applet EXCEPT ![owner[c]] =
                          updates_checked(@, result[c], update_info[c])]
    /\ owner' = [owner EXCEPT ![c] = 0]
    /\ UNCHANGED <<terminal, call, ret, config, lock, log, sync_file>>
    /\ UNCHANGED <<inbox, watcher, triggers>>

Next ==
    \E c \in Chk :
        \/ CheckForUpdates(c)
        \/ AcquireLockFirst(c)
        \/ AcquireLockRetry(c)
        \/ ReturnErr(c)
        \/ FinishOfficial(c)
        \/ OfficialRetry(c)
        \/ FinishAur(c)
        \/ AurRetry(c)
        \/ notify_check_completed(c)
        \/ ReturnOk(c)
        \/ UpdatesChecked(c)

Spec == Init /\ [][Next]_vars

\* Every command returns, every sleep elapses and the runtime polls every
\* task: an invocation that can take a step takes it in the end. Nothing
\* obliges an applet to start a check.
FairSpec ==
    /\ Spec
    /\ \A c \in Chk :
          WF_vars(\/ AcquireLockFirst(c)
                  \/ AcquireLockRetry(c)
                  \/ ReturnErr(c)
                  \/ FinishOfficial(c)
                  \/ OfficialRetry(c)
                  \/ FinishAur(c)
                  \/ AurRetry(c)
                  \/ notify_check_completed(c)
                  \/ ReturnOk(c))

----------------------------------------------------------------------------
\* The applet: update() of each instance, its sync-file watcher, and the
\* passing of time.

\* The configuration the applets of this part run with: an AUR helper with
\* AUR updates included, so that every phase of check_updates takes place.
AppConfigs ==
    {cfg \in Configs :
        cfg.package_manager = "Paru" /\ cfg.include_aur_updates}

\* The sync file may be left from an earlier session.
AppInit ==
    /\ config \in AppConfigs
    /\ Started
    /\ sync_file \in {"absent", "timestamp"}
    /\ triggers = MaxTriggers

\* Three time scales. Code between two awaits and the system calls of a
\* watcher's set-up take microseconds and are free to interleave with one
\* another. Messages and watcher events take milliseconds: they are
\* handled once no such code is about to run. Commands, sleeps, the user
\* and the timer take seconds: they come once no message is due.
SyscallDue ==
    \/ \E c \in Chk : pc[c] \in {"acquire1", "return_err", "notify", "return_ok"}
    \/ \E i \in Inst : watcher[i].pc \in {"start", "create", "watch"}

CanEnqueue(i) == inbox[i].CheckForUpdates < MaxQueue

CanEmit(i) ==
    /\ watcher[i].pc = "watching"
    /\ watcher[i].rx > 0
    /\ inbox[i].SyncFileChanged < MaxQueue

CanSpawn(i) ==
    inbox[i].CheckForUpdates > 0 /\ \E c \in Chk : pc[c] = "idle"

MessageDue ==
    \/ \E c \in Chk : pc[c] = "returned"
    \/ \E i \in Inst :
          \/ CanEmit(i)
          \/ CanSpawn(i)
          \/ inbox[i].SyncFileChanged > 0 /\ CanEnqueue(i)

Milliseconds == ~SyscallDue
Seconds == ~SyscallDue /\ ~MessageDue

\* The subscription of applet i has been set up (or has given up).
Subscribed(i) == watcher[i].pc \in {"watching", "failed"}

\* The applet is started, at any moment: init, then the first poll of its
\* subscriptions.
Start(i) ==
    /\ watcher[i].pc = "off"
    /\ watcher' = [watcher EXCEPT ![i].pc = "start"]
    /\ UNCHANGED <<terminal, call, ret, config, pc, lock, update_info, result, log, sync_file>>
    /\ UNCHANGED <<applet, owner, inbox, triggers>>

\* Task::done(Message::CheckForUpdates)
Enqueue(i) == [inbox EXCEPT ![i].CheckForUpdates = @ + 1]

\* An external trigger that ends with Message::CheckForUpdates whatever the
\* applet is doing.
Trigger(i) ==
    /\ Seconds
    /\ Subscribed(i)
    /\ CanEnqueue(i)
    /\ triggers > 0
    /\ triggers' = triggers - 1
    /\ inbox' = Enqueue(i)
    /\ UNCHANGED <<terminal, call, ret, config, pc, lock, update_info, result, log, sync_file>>
    /\ UNCHANGED <<applet, owner, watcher>>

\* The "Check for Updates" button of the popup.
PressCheckForUpdates(i) == Trigger(i)

\* Message::TerminalFinished: the terminal of an update run has closed.
TerminalFinished(i) == Trigger(i)

\* Message::DelayedStartupCheck, and the start-up check of init: after
\* STARTUP_DELAY_SECS the applet gets Message::CheckForUpdates.
DelayedStartupCheck(i) == Trigger(i)

\* Variant: the timer starts a check whatever the applet is doing.
timer_unguarded(a, package_manager) == [applet |-> a, recheck |-> TRUE]

\* Message::Timer: the applet afterwards, and whether
\* Message::CheckForUpdates is sent. package_manager is the Option of the
\* configuration: <<>> for None, <<pm>> for Some(pm).
timer(a, package_manager) ==
    [applet |-> a,
     recheck |-> ~a.checking_updates /\ package_manager # <<>>]

\* The timer of an applet with a manager configured fires.
Timer(i) ==
    /\ Seconds
    /\ Subscribed(i)
    /\ triggers > 0
    /\ triggers' = triggers - 1
    /\ LET r == timer(applet[i], <<config.package_manager>>) IN
         /\ r.recheck => CanEnqueue(i)
         /\ inbox' = IF r.recheck THEN Enqueue(i) ELSE inbox
    /\ UNCHANGED <<terminal, call, ret, config, pc, lock, update_info, result, log, sync_file>>
    /\ UNCHANGED <<applet, owner, watcher>>

\* Message::CheckForUpdates: the applet spawns check_updates (in the lowest
\* free slot) and marks itself as checking.
Message_CheckForUpdates(i, c) ==
    /\ Milliseconds
    /\ inbox[i].CheckForUpdates > 0
    /\ pc[c] = "idle"
    /\ \A d \in Chk : d < c => pc[d] # "idle"
    /\ inbox' = [inbox EXCEPT ![i].CheckForUpdates = @ - 1]
    /\ applet' = [applet EXCEPT ![i].checking_updates = TRUE,
                                ![i].error_message = ""]
    /\ owner' = [owner EXCEPT ![c] = i]
    /\ pc' = [pc EXCEPT ![c] = "acquire1"]
    /\ UNCHANGED <<terminal, call, ret, config, lock, update_info, result, log, sync_file>>
    /\ UNCHANGED <<watcher, triggers>>

\* should_sync: no check yet, or the last one more than the threshold ago.
should_sync(a) ==
    ~a.last_check.is_some \/ a.last_check.elapsed > SYNC_DEBOUNCE_SECS

\* Variant: the first message is ignored but the flag stays armed.
sync_file_changed_rearmed(a, package_manager) ==
    [applet |-> a,
     recheck |-> /\ ~a.ignore_next_sync
                 /\ ~a.checking_updates
                 /\ package_manager # <<>>
                 /\ should_sync(a)]

\* Message::SyncFileChanged: the applet afterwards, and whether
\* Message::CheckForUpdates is sent.
sync_file_changed(a, package_manager) ==
    IF a.ignore_next_sync
    THEN [applet |-> [a EXCEPT !.ignore_next_sync = FALSE],
          recheck |-> FALSE]
    ELSE [applet |-> a,
          recheck |-> /\ ~a.checking_updates
                      /\ package_manager # <<>>
                      /\ should_sync(a)]

SyncFileChanged(i) ==
    /\ Milliseconds
    /\ inbox[i].SyncFileChanged > 0
    /\ LET r == sync_file_changed(applet[i], <<config.package_manager>>) IN
         /\ r.recheck => CanEnqueue(i)
         /\ applet' = [applet EXCEPT ![i] = r.applet]
         /\ inbox' = [inbox EXCEPT ![i] =
                [CheckForUpdates |->
                     @.CheckForUpdates + (IF r.recheck THEN 1 ELSE 0),
                 SyncFileChanged |-> @.SyncFileChanged - 1]]
    /\ UNCHANGED <<terminal, call, ret, config, pc, lock, update_info, result, log, sync_file>>
    /\ UNCHANGED <<owner, watcher, triggers>>

\* watch_sync_file, first poll: does the sync file exist?
WatcherExists(i) ==
    /\ watcher[i].pc = "start"
    /\ watcher' = [watcher EXCEPT ![i].pc =
            IF sync_file = "absent" THEN "create" ELSE "watch"]
    /\ UNCHANGED <<terminal, call, ret, config, pc, lock, update_info, result, log, sync_file>>
    /\ UNCHANGED <<applet, owner, inbox, triggers>>

\* File::create(&sync_path): creates the file, or truncates the one that
\* has appeared since; its result is dropped. Subscribed watchers see the
\* truncation, this one does not watch yet.
WatcherCreate(i) ==
    /\ watcher[i].pc = "create"
    /\ \E io \in {"ok", "err"} :
         IF io = "ok"
         THEN /\ Room(1)
              /\ sync_file' = "empty"
              /\ watcher' = [observed(1) EXCEPT ![i].pc = "watch"]
         ELSE /\ sync_file' = sync_file
              /\ watcher' = [watcher EXCEPT ![i].pc = "watch"]
    /\ UNCHANGED <<terminal, call, ret, config, pc, lock, update_info, result, log>>
    /\ UNCHANGED <<applet, owner, inbox, triggers>>

\* recommended_watcher and watcher.watch: on an error the stream ends.
WatcherWatch(i) ==
    /\ watcher[i].pc = "watch"
    /\ \E ok \in BOOLEAN :
         /\ ok => sync_file # "absent"
         /\ watcher' = [watcher EXCEPT ![i].pc =
                IF ok THEN "watching" ELSE "failed"]
    /\ UNCHANGED <<terminal, call, ret, config, pc, lock, update_info, result, log, sync_file>>
    /\ UNCHANGED <<applet, owner, inbox, triggers>>

\* The loop of the stream: take one event from the channel, sleep
\* FILE_WATCHER_DEBOUNCE_MS, yield Message::SyncFileChanged.
WatcherEmit(i) ==
    /\ Milliseconds
    /\ CanEmit(i)
    /\ watcher' = [watcher EXCEPT ![i].rx = @ - 1]
    /\ inbox' = [inbox EXCEPT ![i].SyncFileChanged = @ + 1]
    /\ UNCHANGED <<terminal, call, ret, config, pc, lock, update_info, result, log, sync_file>>
    /\ UNCHANGED <<applet, owner, triggers>>

\* check_updates from UpdateInfo::new() to the assignment of the total,
\* given what the official query (r1, retried: r2) and the AUR query (a1,
\* retried: a2) return.
run_queries(cfg, r1, r2, a1, a2) ==
    LET r == IF r1.ok THEN r1 ELSE r2
        a == IF a1.ok THEN a1 ELSE a2
        official == IF r.ok
                    THEN [UpdateInfo_new EXCEPT
                             !.official_updates = Len(r.pkgs),
                             !.packages = @ \o r.pkgs]
                    ELSE UpdateInfo_new
        both == IF after_official(cfg).pc = "aur1_run" /\ a.ok
                THEN [official EXCEPT !.aur_updates = Len(a.pkgs),
                                      !.packages = @ \o a.pkgs]
                ELSE official
    IN aggregate(both)

\* What the environment can make the two phases add up to.
query_outcomes ==
    [cfg \in Configs |->
        {run_queries(cfg, r1, r2, a1, a2) :
            r1 \in official_outcomes[cfg], r2 \in official_outcomes[cfg],
            a1 \in aur_outcomes[cfg], a2 \in aur_outcomes[cfg]}]

\* Both phases of check_updates as the applets see them: nothing they do
\* between taking the lock and notifying touches anything shared, so the
\* queries, their sleeps and retries are taken in one step.
Queries(c) ==
    /\ Seconds
    /\ pc[c] = "official1_run"
    /\ \E info \in query_outcomes[config] :
         update_info' = [update_info EXCEPT ![c] = info]
    /\ pc' = [pc EXCEPT ![c] = "notify"]
    /\ log' = Logged(c, <<"total">>)
    /\ UNCHANGED <<terminal, call, ret, config, lock, result, sync_file>>
    /\ UNCHANGED app_vars

\* sleep(LOCK_RETRY_DELAY_SECS) of check_updates ends.
LockRetryDelayEnds(c) == Seconds /\ AcquireLockRetry(c)

\* The task of an invocation has ended: its result is a message like any
\* other.
Message_UpdatesChecked(c) == Milliseconds /\ UpdatesChecked(c)

\* Time passes: Instant::elapsed of applet i's last_check reaches the next
\* of the values told apart.
Elapse(i) ==
    /\ Seconds
    /\ applet[i].last_check.is_some
    /\ \E k \in 1..(Len(ElapsedValues) - 1) :
         /\ applet[i].last_check.elapsed = ElapsedValues[k]
         /\ applet' = [applet EXCEPT ![i].last_check.elapsed =
                ElapsedValues[k + 1]]
    /\ UNCHANGED <<terminal, call, ret, config, pc, lock, update_info, result, log, sync_file>>
    /\ UNCHANGED <<owner, inbox, watcher, triggers>>

\* The applet looked at in full by AppSpec; its peers appear there through
\* the invocations of check_updates they run.
Applet == 1

\* Message::CheckForUpdates of a peer: it spawns check_updates.
PeerCheckForUpdates(c) ==
    /\ Seconds
    /\ triggers > 0
    /\ triggers' = triggers - 1
    /\ pc[c] = "idle"
    /\ \A d \in Chk : d < c => pc[d] # "idle"
    /\ pc' = [pc EXCEPT ![c] = "acquire1"]
    /\ UNCHANGED <<terminal, call, ret, config, lock, update_info, result, log, sync_file>>
    /\ UNCHANGED <<applet, owner, inbox, watcher>>

AppNext ==
    \/ Start(Applet)
    \/ PressCheckForUpdates(Applet)
    \/ TerminalFinished(Applet)
    \/ DelayedStartupCheck(Applet)
    \/ Timer(Applet)
    \/ \E c \in Chk : Message_CheckForUpdates(Applet, c)
    \/ SyncFileChanged(Applet)
    \/ WatcherExists(Applet)
    \/ WatcherCreate(Applet)
    \/ WatcherWatch(Applet)
    \/ WatcherEmit(Applet)
    \/ Elapse(Applet)
    \/ \E c \in Chk :
          \/ PeerCheckForUpdates(c)
          \/ AcquireLockFirst(c)
          \/ LockRetryDelayEnds(c)
          \/ Queries(c)
          \/ ReturnErr(c)
          \/ notify_check_completed(c)
          \/ ReturnOk(c)
          \/ Message_UpdatesChecked(c)

AppSpec == AppInit /\ [][AppNext]_vars

\* The runtime polls every stream and handles every message it is given,
\* and nothing in the system stays ready forever without running.
FairAppSpec ==
    /\ AppSpec
    /\ WF_vars(AppNext)
    /\ WF_vars(WatcherEmit(Applet))
    /\ WF_vars(SyncFileChanged(Applet))

\* What the queries return plays no part between applets: plain pacman,
\* official updates only.
PairConfigs ==
    {cfg \in Configs :
        cfg.package_manager = "Pacman" /\ ~cfg.include_aur_updates}

\* Several applets in full, left to themselves after one initiating check.
\* Every applet is subscribed, the sync file exists, no check has been
\* recorded yet, and one applet has just been given
\* Message::CheckForUpdates; the first sync event of an applet may or may
\* not have been consumed by an earlier notification.
PairInit ==
    /\ config \in PairConfigs
    /\ pc = [c \in Chk |-> "idle"]
    /\ lock = [c \in Chk |-> FALSE]
    /\ update_info = [c \in Chk |-> UpdateInfo_new]
    /\ result = [c \in Chk |-> NoResult]
    /\ log = [c \in Chk |-> <<>>]
    /\ owner = [c \in Chk |-> 0]
    /\ applet \in [Inst -> {[applet_new EXCEPT !.ignore_next_sync = g] :
                                g \in BOOLEAN}]
    /\ watcher = [i \in Inst |-> [pc |-> "watching", rx |-> 0]]
    /\ \E first \in Inst :
         inbox = [i \in Inst |->
                    IF i = first
                    THEN [inbox_new EXCEPT !.CheckForUpdates = 1]
                    ELSE inbox_new]
    /\ sync_file = "timestamp"
    /\ triggers = 0
    /\ terminal = terminal_new
    /\ call = NoCall
    /\ ret = NoCall

\* No timer, no user, no terminal: only what the applets do by themselves.
PairNext ==
    \/ \E i \in Inst :
          \/ \E c \in Chk : Message_CheckForUpdates(i, c)
          \/ SyncFileChanged(i)
          \/ WatcherEmit(i)
          \/ Elapse(i)
    \/ \E c \in Chk :
          \/ AcquireLockFirst(c)
          \/ LockRetryDelayEnds(c)
          \/ Queries(c)
          \/ ReturnErr(c)
          \/ notify_check_completed(c)
          \/ ReturnOk(c)
          \/ Message_UpdatesChecked(c)

PairSpec == PairInit /\ [][PairNext]_vars

\* Whatever can run does run in the end.
FairPairSpec == PairSpec /\ WF_vars(PairNext)

----------------------------------------------------------------------------
\* Text: a &str is the sequence of its characters, and the methods of str
\* the parsers use.

\* The string literals of the parsers.
Text ==
    [Listing |->
       <<"L", "i", "s", "t", "i", "n", "g", ".", ".", ".">>,
     Done |->
       <<"D", "o", "n", "e">>,
     WARNING |->
       <<"W", "A", "R", "N", "I", "N", "G", ":">>,
     S_bar |->
       <<"S", " ", "|">>,
     dashes |->
       <<"-", "-", "+">>,
     arrow_spaced |->
       <<" ", "-", ">", " ">>,
     arrow |->
       <<"-", ">">>,
     unknown |->
       <<"u", "n", "k", "n", "o", "w", "n">>,
     upgradable |->
       <<"[", "u", "p", "g", "r", "a", "d", "a", "b", "l", "e", " ", "f", "r", "o", "m", ":">>,
     upgradable_sp |->
       <<"[", "u", "p", "g", "r", "a", "d", "a", "b", "l", "e", " ", "f", "r", "o", "m", ":", " ">>,
     drv_plural |->
       <<"d", "e", "r", "i", "v", "a", "t", "i", "o", "n", "s", " ", "w", "i", "l", "l", " ", "b", "e", " ", "b", "u", "i", "l", "t">>,
     drv_single |->
       <<"d", "e", "r", "i", "v", "a", "t", "i", "o", "n", " ", "w", "i", "l", "l", " ", "b", "e", " ", "b", "u", "i", "l", "t">>,
     paths_plural |->
       <<"p", "a", "t", "h", "s", " ", "w", "i", "l", "l", " ", "b", "e", " ", "f", "e", "t", "c", "h", "e", "d">>,
     paths_single |->
       <<"p", "a", "t", "h", " ", "w", "i", "l", "l", " ", "b", "e", " ", "f", "e", "t", "c", "h", "e", "d">>,
     up_to_date |->
       <<"u", "p", " ", "t", "o", " ", "d", "a", "t", "e">>,
     already_built |->
       <<"a", "l", "r", "e", "a", "d", "y", " ", "b", "u", "i", "l", "t">>,
     System_Update |->
       <<"S", "y", "s", "t", "e", "m", " ", "U", "p", "d", "a", "t", "e">>,
     Downloads |->
       <<"D", "o", "w", "n", "l", "o", "a", "d", "s">>,
     packages |->
       <<" ", "p", "a", "c", "k", "a", "g", "e", "s">>,
     will_be_built |->
       <<"w", "i", "l", "l", " ", "b", "e", " ", "b", "u", "i", "l", "t">>,
     will_be_fetched |->
       <<"w", "i", "l", "l", " ", "b", "e", " ", "f", "e", "t", "c", "h", "e", "d">>,
     these |->
       <<"t", "h", "e", "s", "e">>]


starts_with(s, p) == Len(s) >= Len(p) /\ SubSeq(s, 1, Len(p)) = p

\* str::find: the position of the first match (from 1), 0 for None.
find(s, p) ==
    LET at == {i \in 1..(Len(s) - Len(p) + 1) :
                  SubSeq(s, i, i + Len(p) - 1) = p}
    IN IF at = {} THEN 0 ELSE CHOOSE i \in at : \A j \in at : i <= j

\* str::rfind: the position of the last match, 0 for None.
rfind(s, p) ==
    LET at == {i \in 1..(Len(s) - Len(p) + 1) :
                  SubSeq(s, i, i + Len(p) - 1) = p}
    IN IF at = {} THEN 0 ELSE CHOOSE i \in at : \A j \in at : i >= j

contains(s, p) == find(s, p) # 0

is_whitespace(ch) == ch \in {" ", "\t", "\n", "\r"}

\* str::trim: from the first to the last character that is no whitespace.
trim(s) ==
    LET at == {i \in 1..Len(s) : ~is_whitespace(s[i])} IN
    IF at = {} THEN <<>>
    ELSE SubSeq(s, CHOOSE i \in at : \A j \in at : i <= j,
                   CHOOSE i \in at : \A j \in at : i >= j)

\* str::split_whitespace, collected: the runs of characters that are no
\* whitespace.
RECURSIVE split_whitespace(_)
split_whitespace(s) ==
    LET at == {i \in 1..Len(s) : ~is_whitespace(s[i])} IN
    IF at = {} THEN <<>>
    ELSE LET first == CHOOSE i \in at : \A j \in at : i <= j
             ws == {i \in first..Len(s) : is_whitespace(s[i])}
             stop == IF ws = {} THEN Len(s) + 1
                     ELSE CHOOSE i \in ws : \A j \in ws : i <= j
         IN <<SubSeq(s, first, stop - 1)>>
            \o split_whitespace(SubSeq(s, stop, Len(s)))

\* str::split(char), collected: one piece more than there are separators.
RECURSIVE split(_, _)
split(s, ch) ==
    LET i == find(s, <<ch>>) IN
    IF i = 0 THEN <<s>>
    ELSE <<SubSeq(s, 1, i - 1)>> \o split(SubSeq(s, i + 1, Len(s)), ch)

Digits == <<"0", "1", "2", "3", "4", "5", "6", "7", "8", "9">>

\* str::parse::<usize>: -1 for Err. One leading "+" is accepted.
parse_usize(s) ==
    LET d == IF s # <<>> /\ Head(s) = "+" THEN Tail(s) ELSE s
        digit(ch) == (CHOOSE k \in 1..10 : Digits[k] = ch) - 1
        RECURSIVE value(_, _)
        value(t, acc) ==
            IF t = <<>> THEN acc
            ELSE value(Tail(t), 10 * acc + digit(Head(t)))
    IN IF d # <<>> /\ \A i \in 1..Len(d) : \E k \in 1..10 : Digits[k] = d[i]
       THEN value(d, 0)
       ELSE -1

\* str::lines, collected: the pieces between "\n", each without the "\r"
\* before its "\n"; nothing after the last line ending is no line.
RECURSIVE lines(_)
lines(s) ==
    LET i == find(s, <<"\n">>) IN
    IF s = <<>> THEN <<>>
    ELSE IF i = 0 THEN <<s>>
    ELSE LET l == SubSeq(s, 1, i - 1) IN
         <<IF l # <<>> /\ l[Len(l)] = "\r" THEN SubSeq(l, 1, Len(l) - 1)
           ELSE l>>
         \o lines(SubSeq(s, i + 1, Len(s)))

\* The concatenation of a sequence of strings.
RECURSIVE concat(_)
concat(ss) == IF ss = <<>> THEN <<>> ELSE Head(ss) \o concat(Tail(ss))

\* PackageUpdate with all its fields, the strings spelled out.
PackageUpdate_text(n, cur, new, aur) ==
    [name |-> n, current_version |-> cur, new_version |-> new,
     is_aur |-> aur]

\* The version inside "[upgradable from: ...]", "unknown" without it.
upgradable_from(line) ==
    LET from_idx == find(line, Text.upgradable_sp) IN
    IF from_idx = 0 THEN Text.unknown
    ELSE LET start == from_idx + Len(Text.upgradable_sp)
             rest == SubSeq(line, start, Len(line))
             end_idx == find(rest, <<"]">>)
         IN IF end_idx = 0 THEN Text.unknown
            ELSE SubSeq(rest, 1, end_idx - 1)

\* The header test of parse_package_line.
is_header(line) ==
    \/ starts_with(line, Text.Listing)
    \/ starts_with(line, Text.Done)
    \/ starts_with(line, Text.WARNING)
    \/ starts_with(line, Text.S_bar)
    \/ starts_with(line, Text.dashes)
    \/ trim(line) = <<>>

\* The Arch branch of parse_package_line.
parse_arch_line(line, is_aur) ==
    LET parts == split_whitespace(line) IN
    IF contains(line, Text.arrow_spaced)
    THEN IF Len(parts) >= 4 /\ parts[3] = Text.arrow
         THEN <<PackageUpdate_text(parts[1], parts[2], parts[4], is_aur)>>
         ELSE <<>>
    ELSE IF Len(parts) >= 2
         THEN <<PackageUpdate_text(parts[1], Text.unknown, parts[2], is_aur)>>
         ELSE <<>>

parse_apt_line(line) ==
    IF contains(line, Text.upgradable)
    THEN LET parts == split_whitespace(line) IN
         <<PackageUpdate_text(
              split(line, "/")[1],
              upgradable_from(line),
              IF Len(parts) >= 2 THEN parts[2] ELSE Text.unknown,
              FALSE)>>
    ELSE <<>>

parse_dnf_line(line) ==
    LET parts == split_whitespace(line) IN
    IF Len(parts) >= 2
    THEN <<PackageUpdate_text(split(parts[1], ".")[1], Text.unknown,
                              parts[2], FALSE)>>
    ELSE <<>>

parse_zypper_line(line) ==
    LET parts == split(line, "|") IN
    IF Len(parts) >= 4
    THEN <<PackageUpdate_text(trim(parts[2]), Text.unknown, trim(parts[4]),
                              FALSE)>>
    ELSE <<>>

parse_apk_line(line) ==
    LET parts == split_whitespace(line) IN
    IF contains(line, Text.upgradable) /\ Len(parts) >= 1
    THEN LET pkg_info == parts[1]
             dash_idx == rfind(pkg_info, <<"-">>)
         IN <<PackageUpdate_text(
                 IF dash_idx # 0 THEN SubSeq(pkg_info, 1, dash_idx - 1)
                 ELSE pkg_info,
                 upgradable_from(line),
                 IF Len(parts) >= 2 THEN parts[2] ELSE Text.unknown,
                 FALSE)>>
    ELSE <<>>

parse_flatpak_line(line) ==
    LET parts == split(line, "\t") IN
    IF Len(parts) >= 3
    THEN <<PackageUpdate_text(parts[1], Text.unknown, parts[3], FALSE)>>
    ELSE <<>>

\* Variant: the header test is left out.
parse_package_line_text_no_header_test(pm, line, is_aur) ==
    CASE pm \in {"Pacman", "Paru", "Yay"} -> parse_arch_line(line, is_aur)
      [] pm = "Apt" -> parse_apt_line(line)
      [] pm = "Dnf" -> parse_dnf_line(line)
      [] pm = "Zypper" -> parse_zypper_line(line)
      [] pm = "Apk" -> parse_apk_line(line)
      [] pm = "Flatpak" -> parse_flatpak_line(line)
      [] OTHER -> <<>>

\* parse_package_line on the text of a line: Option<PackageUpdate> as a
\* sequence of no or one entry.
parse_package_line_text(pm, line, is_aur) ==
    IF is_header(line) THEN <<>>
    ELSE CASE pm \in {"Pacman", "Paru", "Yay"} -> parse_arch_line(line, is_aur)
           [] pm = "Apt" -> parse_apt_line(line)
           [] pm = "Dnf" -> parse_dnf_line(line)
           [] pm = "Zypper" -> parse_zypper_line(line)
           [] pm = "Apk" -> parse_apk_line(line)
           [] pm = "Flatpak" -> parse_flatpak_line(line)
           [] OTHER -> <<>>

----------------------------------------------------------------------------
\* Functions looked at on their own: every action calls one function once,
\* with arguments drawn from a bounded set, and records what it returned.

FnInit ==
    /\ config \in PairConfigs
    /\ Started
    /\ sync_file = "absent"
    /\ triggers = 0

\* The call leaves the applets and their checks alone.
Returned(c, r) ==
    /\ call' = c
    /\ ret' = r
    /\ UNCHANGED <<terminal, config, pc, lock, update_info, result, log, sync_file>>
    /\ UNCHANGED app_vars

\* Variant: one update does not count yet.
has_updates_above_one(info) == info.total_updates > 1

\* UpdateInfo::has_updates
has_updates(info) == info.total_updates > 0

Call_has_updates ==
    /\ call = NoCall
    /\ \E n \in 0..MaxTotal :
        LET info == [UpdateInfo_new EXCEPT !.total_updates = n] IN
        Returned([fn |-> "has_updates", info |-> info], has_updates(info))

\* Every string made of at most n of the pieces.
LinesOf(pieces, n) ==
    {concat(ps) : ps \in UNION {[1..k -> pieces] : k \in 0..n}}

\* The Arch branch on every line of at most MaxPieces pieces: a word, a
\* number, an arrow, a blank, a tab.
Call_parse_arch_line ==
    /\ call = NoCall
    /\ \E pm \in {"Pacman", "Paru", "Yay"}, is_aur \in BOOLEAN,
       line \in LinesOf({<<"a">>, <<"1">>, Text.arrow, <<" ">>, <<"\t">>},
                        MaxPieces) :
        Returned([fn |-> "parse_package_line", pm |-> pm, line |-> line,
                  is_aur |-> is_aur],
                 parse_package_line_text(pm, line, is_aur))

\* One line of each tool's output as the source describes it, and a line
\* that fits no grammar.
SampleLines ==
    {concat(<<<<"a", " ", "1">>, Text.arrow_spaced, <<"2">>>>),
     <<"a", " ", "2">>,
     concat(<<<<"a", "/", "s", " ", "2", " ", "x", " ">>,
              Text.upgradable_sp, <<"1", "]">>>>),
     <<"a", ".", "x", " ", "2", " ", "r">>,
     <<"v", " ", "|", " ", "a", " ", "|", " ", "u", " ", "|", " ", "2">>,
     concat(<<<<"a", "-", "2", " ", "x", " ">>,
              Text.upgradable_sp, <<"a", "-", "1", "]">>>>),
     <<"a", "\t", "i", "\t", "2", "\t", "b">>,
     <<"a">>}

\* What the header test looks for at the start of a line, alone or with
\* something after it, and blank lines.
NoiseLines ==
    {Text.Listing, Text.Done, Text.WARNING, <<>>, <<" ">>, <<"\t", " ">>}
    \cup {p \o t : p \in {Text.Listing, Text.Done, Text.WARNING},
                   t \in SampleLines \cup {<<" ">> \o l : l \in SampleLines}}

Call_parse_package_line ==
    /\ call = NoCall
    /\ \E pm \in PackageManagers, is_aur \in BOOLEAN,
       line \in SampleLines \cup NoiseLines :
        Returned([fn |-> "parse_package_line", pm |-> pm, line |-> line,
                  is_aur |-> is_aur],
                 parse_package_line_text(pm, line, is_aur))

\* Result<Vec<PackageUpdate>> of parse_update_output. The message of the
\* error is formatted from the exit code and the text of stderr.
Ok_text(packages) == [ok |-> TRUE, packages |-> packages]

Err_exit(exit_code, stderr) ==
    [ok |-> FALSE, error |-> "Failed to check for updates",
     exit_code |-> exit_code, stderr |-> stderr]

Err_spawn == [ok |-> FALSE, error |-> "io"]

\* The loop over stdout.lines(): an entry is pushed for a line that parses,
\* the other lines are passed over.
RECURSIVE parse_stdout_lines(_, _, _, _)
parse_stdout_lines(pm, ls, is_aur, packages) ==
    IF ls = <<>> THEN packages
    ELSE parse_stdout_lines(pm, Tail(ls), is_aur,
             packages \o parse_package_line_text(pm, Head(ls), is_aur))

\* Variant: no exit code is special.
parse_update_output_text_no_special_case(pm, cmd, o, is_aur) ==
    IF ~o.spawn THEN Err_spawn
    ELSE IF o.code # 0 /\ trim(o.stdout) = <<>>
    THEN Err_exit(o.code, o.stderr)
    ELSE Ok_text(parse_stdout_lines(pm, lines(o.stdout), is_aur, <<>>))

\* Variant: an exit code that is not special is an error whatever stdout
\* holds.
parse_update_output_text_stdout_unread(pm, cmd, o, is_aur) ==
    IF ~o.spawn THEN Err_spawn
    ELSE IF o.code # 0
            /\ ((cmd = "checkupdates" /\ o.code = 2)
                \/ (cmd \in {"paru", "yay"} /\ o.code = 1))
    THEN Ok_text(<<>>)
    ELSE IF o.code # 0 /\ ~(cmd = "dnf" /\ o.code = 100)
    THEN Err_exit(o.code, o.stderr)
    ELSE Ok_text(parse_stdout_lines(pm, lines(o.stdout), is_aur, <<>>))

\* Variant: the loop gives up at the first line that does not parse.
parse_update_output_text_strict(pm, cmd, o, is_aur) ==
    LET ls == lines(o.stdout)
        parses(l) == parse_package_line_text(pm, l, is_aur) # <<>>
    IN
    IF ~o.spawn THEN Err_spawn
    ELSE IF o.code # 0
            /\ ((cmd = "checkupdates" /\ o.code = 2)
                \/ (cmd \in {"paru", "yay"} /\ o.code = 1))
    THEN Ok_text(<<>>)
    ELSE IF o.code # 0 /\ ~(cmd = "dnf" /\ o.code = 100)
            /\ trim(o.stdout) = <<>>
    THEN Err_exit(o.code, o.stderr)
    ELSE IF \E k \in 1..Len(ls) : ~parses(ls[k])
    THEN Err_exit(o.code, o.stderr)
    ELSE Ok_text(parse_stdout_lines(pm, ls, is_aur, <<>>))

\* parse_update_output on the text of the tool's output. o.code is
\* status.code().unwrap_or(-1): 0 for success, -1 for a child ended by a
\* signal.
parse_update_output_text(pm, cmd, o, is_aur) ==
    IF ~o.spawn THEN Err_spawn
    ELSE IF o.code # 0
            /\ ((cmd = "checkupdates" /\ o.code = 2)
                \/ (cmd \in {"paru", "yay"} /\ o.code = 1))
    THEN Ok_text(<<>>)
    ELSE IF o.code # 0 /\ ~(cmd = "dnf" /\ o.code = 100)
            /\ trim(o.stdout) = <<>>
    THEN Err_exit(o.code, o.stderr)
    ELSE Ok_text(parse_stdout_lines(pm, lines(o.stdout), is_aur, <<>>))

\* The two places parse_update_output is called from: the official query
\* of every manager but NixOS, and the AUR query of paru and yay.
CallSites ==
    {[pm |-> pm, cmd |-> official_cmd(pm), is_aur |-> FALSE] :
        pm \in PackageManagers \ {"NixOS"}}
    \cup {[pm |-> pm, cmd |-> aur_cmd(pm), is_aur |-> TRUE] :
        pm \in {"Paru", "Yay"}}

\* What a command may leave behind. Exit codes: success, the three special
\* ones, one that is not special, and none at all. stdout: at most
\* MaxOutLines of the sample lines, a blank line and a header, each ended
\* by "\n".
Outputs_text ==
    [spawn : {TRUE},
     code : {0, 1, 2, 100, 3, -1},
     stdout : LinesOf({l \o <<"\n">> :
                          l \in SampleLines \cup {<<" ">>, Text.Listing}},
                      MaxOutLines),
     stderr : {<<>>, <<"e">>}]
    \cup {[spawn |-> FALSE, code |-> 0, stdout |-> <<>>, stderr |-> <<>>]}

Call_parse_update_output ==
    /\ call = NoCall
    /\ \E site \in CallSites, o \in Outputs_text :
        Returned([fn |-> "parse_update_output", pm |-> site.pm,
                  cmd |-> site.cmd, is_aur |-> site.is_aur, output |-> o],
                 parse_update_output_text(site.pm, site.cmd, o, site.is_aur))

\* usize formatted with {}.
RECURSIVE to_string_usize(_)
to_string_usize(n) ==
    IF n < 10 THEN <<Digits[n + 1]>>
    ELSE to_string_usize(n \div 10) \o <<Digits[(n % 10) + 1]>>

\* The loop over output.lines(): the two counters after the last line.
\* line.split_whitespace().nth(1) parsed as usize sets a counter if there is
\* such a number; otherwise the counter keeps what it held.
RECURSIVE count_lines(_, _, _)
count_lines(ls, packages_to_build, packages_to_fetch) ==
    IF ls = <<>>
    THEN [packages_to_build |-> packages_to_build,
          packages_to_fetch |-> packages_to_fetch]
    ELSE LET line == Head(ls)
             t == split_whitespace(line)
             num(before) ==
                 IF Len(t) >= 2 /\ parse_usize(t[2]) >= 0
                 THEN parse_usize(t[2])
                 ELSE before
         IN count_lines(Tail(ls),
                IF contains(line, Text.drv_plural)
                   \/ contains(line, Text.drv_single)
                THEN num(packages_to_build)
                ELSE packages_to_build,
                IF contains(line, Text.paths_plural)
                   \/ contains(line, Text.paths_single)
                THEN num(packages_to_fetch)
                ELSE packages_to_fetch)

\* parse_nixos_rebuild_output on the text of the output. With both counters
\* at zero the list is empty on either side of the test for "up to date".
parse_nixos_rebuild_output_text(output) ==
    LET n == count_lines(lines(output), 0, 0) IN
    IF n.packages_to_build > 0 \/ n.packages_to_fetch > 0
    THEN (IF n.packages_to_build > 0
          THEN <<PackageUpdate_text(Text.System_Update,
                     to_string_usize(n.packages_to_build) \o Text.packages,
                     Text.will_be_built, FALSE)>>
          ELSE <<>>)
         \o (IF n.packages_to_fetch > 0
             THEN <<PackageUpdate_text(Text.Downloads,
                        to_string_usize(n.packages_to_fetch) \o Text.packages,
                        Text.will_be_fetched, FALSE)>>
             ELSE <<>>)
    ELSE IF contains(output, Text.up_to_date)
            \/ contains(output, Text.already_built)
    THEN <<>>
    ELSE <<>>

\* parse_nixos_rebuild_output on the lines of a dry build: what will be
\* built and fetched, with a number or without one, that nothing is left to
\* do, and a line about something else.
Call_parse_nixos_rebuild_output ==
    /\ call = NoCall
    /\ LET NixLines ==
        {concat(<<Text.these, <<" ", "1", "2", " ">>, Text.drv_plural, <<":">>>>),
         concat(<<Text.these, <<" ", "1", " ">>, Text.drv_single, <<":">>>>),
         concat(<<Text.these, <<" ", "0", " ">>, Text.drv_plural, <<":">>>>),
         concat(<<Text.these, <<" ", "3", " ">>, Text.paths_plural>>),
         concat(<<Text.these, <<" ">>, Text.paths_plural>>),
         concat(<<<<"a", " ">>, Text.up_to_date>>),
         concat(<<<<"a", " ">>, Text.already_built>>),
         <<"a", " ", "2">>}
       IN \E output \in LinesOf({l \o <<"\n">> : l \in NixLines}, MaxNixLines) :
            Returned([fn |-> "parse_nixos_rebuild_output", output |-> output],
                     parse_nixos_rebuild_output_text(output))

\* update() on Message::Timer and on Message::SyncFileChanged, for an applet
\* in any state: checking or not, the first sync message still to come or
\* not, no check yet or one of any age, a manager configured or none.
Call_update ==
    /\ call = NoCall
    /\ \E message \in {"Timer", "SyncFileChanged"},
          checking \in BOOLEAN, ignore \in BOOLEAN,
          last \in {None} \cup {Some(ElapsedValues[k]) : k \in 1..3},
          package_manager \in {<<>>, <<"Pacman">>} :
        LET a == [applet_new EXCEPT !.checking_updates = checking,
                                    !.ignore_next_sync = ignore,
                                    !.last_check = last]
        IN Returned([fn |-> "update", message |-> message, app |-> a,
                     package_manager |-> package_manager],
                    IF message = "Timer" THEN timer(a, package_manager)
                    ELSE sync_file_changed(a, package_manager))

\* Minimum height for list items, in pixels.
MIN_ITEM_HEIGHT == 30

\* VirtualizedState::visible_range, on whole numbers of pixels: the height
\* is clamped from below, the start is floored, the count of visible items
\* is rounded up, and the start saturates at 0.
visible_range(state, item_height, buffer) ==
    LET height == IF item_height > MIN_ITEM_HEIGHT
                  THEN item_height ELSE MIN_ITEM_HEIGHT
        start_index == state.scroll_offset \div height
        visible_count == (state.viewport_height + height - 1) \div height + 1
        end_index == start_index + visible_count
    IN <<IF start_index > buffer THEN start_index - buffer ELSE 0,
         end_index + buffer>>

\* visible_range as the tests call it: heights around the minimum and the
\* ones of the tests, at the top of the list and scrolled down.
Call_visible_range ==
    /\ call = NoCall
    /\ \E item_height \in {1, 29, 30, 31, 40},
          scroll_offset \in {0, 30, 200},
          viewport_height \in {0, 1, 30, 400},
          buffer \in {0, 5} :
        LET state == [scroll_offset |-> scroll_offset,
                      viewport_height |-> viewport_height]
        IN Returned([fn |-> "visible_range", state |-> state,
                     item_height |-> item_height, buffer |-> buffer],
                    visible_range(state, item_height, buffer))

FnNext ==
    \/ Call_visible_range
    \/ Call_update
    \/ Call_has_updates
    \/ Call_parse_arch_line
    \/ Call_parse_package_line
    \/ Call_parse_update_output
    \/ Call_parse_nixos_rebuild_output

FnSpec == FnInit /\ [][FnNext]_vars

----------------------------------------------------------------------------
\* Detection of the package managers

\* The directories a program may be run from.
SystemPaths ==
    {<<"/", "u", "s", "r", "/">>,
     <<"/", "b", "i", "n", "/">>,
     <<"/", "s", "b", "i", "n", "/">>,
     <<"/", "n", "i", "x", "/", "s", "t", "o", "r", "e", "/">>,
     <<"/", "r", "u", "n", "/", "c", "u", "r", "r", "e", "n", "t", "-", "s", "y", "s", "t", "e", "m", "/">>,
     <<"/", "o", "p", "t", "/">>}

\* is_nixos_available: nixos-rebuild is found, and one of the two marks of
\* a NixOS system exists.
is_nixos_available(sys) ==
    IF ~sys.nixos_rebuild THEN FALSE
    ELSE sys.etc_NIXOS \/ sys.run_current_system

\* The branch of is_available for every manager but NixOS, on the output of
\* which.
in_system_path(out) ==
    IF out.success
    THEN LET path == trim(out.stdout) IN
         \E dir \in SystemPaths : starts_with(path, dir)
    ELSE FALSE

\* is_available(pm) in a system sys.
is_available(pm, sys) ==
    IF pm = "NixOS" THEN is_nixos_available(sys)
    ELSE in_system_path(sys.which[pm])

\* Variant: the system package manager of Arch comes before its helpers.
PreferenceOrder_pacman_first ==
    <<"Pacman", "Paru", "Yay", "Apt", "Dnf", "Zypper", "Apk", "NixOS",
      "Flatpak">>

\* The array detect_available goes through.
PreferenceOrder ==
    <<"Paru", "Yay", "Pacman", "Apt", "Dnf", "Zypper", "Apk", "NixOS",
      "Flatpak">>

\* detect_available: the loop over the array, from position i on.
detect_available(sys) ==
    LET RECURSIVE detect_from(_, _)
        detect_from(i, available) ==
            IF i > Len(PreferenceOrder) THEN available
            ELSE detect_from(i + 1,
                     IF is_available(PreferenceOrder[i], sys)
                     THEN Append(available, PreferenceOrder[i])
                     ELSE available)
    IN detect_from(1, <<>>)

\* Option<PackageManager>: no or one element.
get_preferred(sys) ==
    LET available == detect_available(sys) IN
    IF available = <<>> THEN <<>> ELSE <<Head(available)>>

\* Systems: every manager but NixOS is missing, in a system directory or
\* somewhere else; the three facts about NixOS are free.
Systems ==
    [which : [PackageManagers \ {"NixOS"} ->
                {[success |-> FALSE, stdout |-> <<>>],
                 [success |-> TRUE, stdout |-> <<"/", "u", "s", "r", "/", "b", "i", "n", "/", "p", "\n">>],
                 [success |-> TRUE, stdout |-> <<"/", "t", "m", "p", "/", "p", "\n">>]}],
     nixos_rebuild : BOOLEAN,
     etc_NIXOS : BOOLEAN,
     run_current_system : BOOLEAN]

\* is_available on every output of `which <name>`: whether it ran and
\* succeeded, and its stdout.
Call_is_available ==
    /\ call = NoCall
    /\ LET WhichOutputs ==
        {[success |-> FALSE, stdout |-> <<>>]}
        \cup {[success |-> TRUE, stdout |-> dir \o <<"p", "\n">>] :
                dir \in SystemPaths
                        \cup {<<"/", "t", "m", "p", "/">>, <<"/", "h", "o", "m", "e", "/", "u", "/">>,
                              <<"/", "u", "s", "r", "x", "/">>}}
       IN \E pm \in PackageManagers \ {"NixOS"}, out \in WhichOutputs :
            Returned([fn |-> "is_available", pm |-> pm, which |-> out],
                     in_system_path(out))

Call_detect_available ==
    /\ call = NoCall
    /\ \E sys \in Systems :
        Returned([fn |-> "detect_available", sys |-> sys],
                 detect_available(sys))

Call_get_preferred ==
    /\ call = NoCall
    /\ \E sys \in Systems :
        Returned([fn |-> "get_preferred", sys |-> sys], get_preferred(sys))

DetectNext ==
    \/ Call_is_available
    \/ Call_detect_available
    \/ Call_get_preferred

DetectSpec == FnInit /\ [][DetectNext]_vars

----------------------------------------------------------------------------
\* Start-up of the applet: init, discovery of a package manager, and the
\* start-up check. The inbox holds the messages the runtime has still to
\* hand to update(), in no order, and the sleeps of STARTUP_DELAY_SECS that
\* have not yet elapsed; CheckForUpdates is left in it, so that it counts
\* the start-up checks issued.

\* init: the configuration as loaded (a manager or none, start-up check on
\* or off) and the batch of tasks init returns.
StartInit ==
    /\ config \in [package_manager :
                       {<<>>} \cup {<<pm>> : pm \in PackageManagers},
                   auto_check_on_startup : BOOLEAN]
    /\ pc = [c \in Chk |-> "idle"]
    /\ lock = [c \in Chk |-> FALSE]
    /\ update_info = [c \in Chk |-> UpdateInfo_new]
    /\ result = [c \in Chk |-> NoResult]
    /\ log = [c \in Chk |-> <<>>]
    /\ applet = [i \in Inst |-> applet_new]
    /\ owner = [c \in Chk |-> 0]
    /\ watcher = [i \in Inst |-> watcher_new]
    /\ terminal = terminal_new
    /\ call = NoCall
    /\ ret = NoCall
    /\ sync_file = "absent"
    /\ triggers = 0
    /\ inbox = [i \in Inst |->
          IF i # Applet THEN inbox_new ELSE
          [DiscoverPackageManagers |->
               IF config.package_manager = <<>> THEN 1 ELSE 0,
           DelayedStartupCheck |->
               IF config.auto_check_on_startup /\ config.package_manager = <<>>
               THEN 1 ELSE 0,
           StartupDelay |->
               IF config.auto_check_on_startup /\ config.package_manager # <<>>
               THEN 1 ELSE 0,
           ConfigChanged |-> <<>>,
           CheckForUpdates |-> 0]]

\* Message::DiscoverPackageManagers: with no manager configured and one
\* found, a copy of the configuration naming it is sent back as
\* ConfigChanged; the configuration itself stays as it is.
Message_DiscoverPackageManagers(i) ==
    /\ inbox[i].DiscoverPackageManagers > 0
    /\ \E preferred \in {<<>>} \cup {<<pm>> : pm \in PackageManagers} :
         inbox' = [inbox EXCEPT
            ![i].DiscoverPackageManagers = @ - 1,
            ![i].ConfigChanged =
                IF config.package_manager = <<>> /\ preferred # <<>>
                THEN Append(@, [config EXCEPT !.package_manager = preferred])
                ELSE @]
    /\ UNCHANGED <<terminal, call, ret, config, pc, lock, update_info, result, log, sync_file>>
    /\ UNCHANGED <<applet, owner, watcher, triggers>>

\* Message::ConfigChanged(config): the configuration is replaced; a manager
\* that appears with the start-up check enabled sends DelayedStartupCheck.
Message_ConfigChanged(i) ==
    /\ \E k \in 1..Len(inbox[i].ConfigChanged) :
         LET new == inbox[i].ConfigChanged[k]
             old_package_manager == config.package_manager
         IN /\ config' = new
            /\ inbox' = [inbox EXCEPT
                  ![i].ConfigChanged =
                      SubSeq(@, 1, k - 1) \o SubSeq(@, k + 1, Len(@)),
                  ![i].DelayedStartupCheck =
                      IF /\ old_package_manager = <<>>
                         /\ new.package_manager # <<>>
                         /\ new.auto_check_on_startup
                      THEN @ + 1 ELSE @]
    /\ UNCHANGED <<terminal, call, ret, pc, lock, update_info, result, log, sync_file>>
    /\ UNCHANGED <<applet, owner, watcher, triggers>>

\* Message::DelayedStartupCheck: with the start-up check enabled and a
\* manager configured, the sleep before the check begins.
Message_DelayedStartupCheck(i) ==
    /\ inbox[i].DelayedStartupCheck > 0
    /\ inbox' = [inbox EXCEPT
          ![i].DelayedStartupCheck = @ - 1,
          ![i].StartupDelay =
              IF config.auto_check_on_startup /\ config.package_manager # <<>>
              THEN @ + 1 ELSE @]
    /\ UNCHANGED <<terminal, call, ret, config, pc, lock, update_info, result, log, sync_file>>
    /\ UNCHANGED <<applet, owner, watcher, triggers>>

\* sleep(STARTUP_DELAY_SECS) elapses: Message::CheckForUpdates is sent.
StartupDelayEnds(i) ==
    /\ inbox[i].StartupDelay > 0
    /\ inbox' = [inbox EXCEPT ![i].StartupDelay = @ - 1,
                              ![i].CheckForUpdates = @ + 1]
    /\ UNCHANGED <<terminal, call, ret, config, pc, lock, update_info, result, log, sync_file>>
    /\ UNCHANGED <<applet, owner, watcher, triggers>>

StartNext ==
    \/ Message_DiscoverPackageManagers(Applet)
    \/ Message_ConfigChanged(Applet)
    \/ Message_DelayedStartupCheck(Applet)
    \/ StartupDelayEnds(Applet)

StartSpec == StartInit /\ [][StartNext]_vars

----------------------------------------------------------------------------
\* Terminal updates: Message::LaunchTerminalUpdate and the task it starts.
\* The marker file is named after the process id of the applet, so every
\* terminal update of one applet uses the same file.

\* Message::LaunchTerminalUpdate, up to the first await of its task: the
\* marker file is created (a failure is only warned about) and the terminal
\* is spawned with `<command> && echo .. && read; rm -f <marker>`. If the
\* spawn fails the marker is removed and the task ends, which sends
\* Message::TerminalFinished.
LaunchTerminalUpdate(t) ==
    /\ terminal.run[t].task = "none"
    /\ \A u \in 1..(t - 1) : terminal.run[u].task # "none"
    /\ \E create \in {"ok", "err"}, spawn \in {"ok", "err"} :
         terminal' =
            IF spawn = "ok"
            THEN [marker |-> terminal.marker \/ create = "ok",
                  run |-> [terminal.run EXCEPT
                      ![t] = [task |-> "polling", command |-> "running"]]]
            ELSE [marker |-> FALSE,
                  run |-> [terminal.run EXCEPT
                      ![t] = [task |-> "finished", command |-> "failed"]]]
    /\ UNCHANGED <<call, ret, config, pc, lock, update_info, result, log, sync_file>>
    /\ UNCHANGED app_vars

\* The update command of a terminal ends (the user has pressed Enter, or
\* the command failed) and the shell goes on to `rm -f <marker>`.
CommandEnds(t) ==
    /\ terminal.run[t].command = "running"
    /\ terminal' = [terminal EXCEPT !.marker = FALSE,
                                    !.run[t].command = "ended"]
    /\ UNCHANGED <<call, ret, config, pc, lock, update_info, result, log, sync_file>>
    /\ UNCHANGED app_vars

\* A poll of the task finds the marker file gone and leaves the loop; while
\* the file exists the task sleeps MARKER_FILE_POLL_INTERVAL_MS and polls
\* again.
PollMarker(t) ==
    /\ terminal.run[t].task = "polling"
    /\ ~terminal.marker
    /\ terminal' = [terminal EXCEPT !.run[t].task = "settling"]
    /\ UNCHANGED <<call, ret, config, pc, lock, update_info, result, log, sync_file>>
    /\ UNCHANGED app_vars

\* sleep(POST_UPDATE_STABILIZATION_SECS) elapses, the task ends and the
\* runtime sends Message::TerminalFinished, which sends CheckForUpdates.
StabilizationEnds(t) ==
    /\ terminal.run[t].task = "settling"
    /\ terminal' = [terminal EXCEPT !.run[t].task = "finished"]
    /\ UNCHANGED <<call, ret, config, pc, lock, update_info, result, log, sync_file>>
    /\ UNCHANGED app_vars

TermNext ==
    \E t \in 1..MaxLaunches :
        \/ LaunchTerminalUpdate(t)
        \/ CommandEnds(t)
        \/ PollMarker(t)
        \/ StabilizationEnds(t)

TermSpec == FnInit /\ [][TermNext]_vars

----------------------------------------------------------------------------
\* Reading the log

RECURSIVE Count(_, _)
Count(s, e) ==
    IF s = <<>> THEN 0
    ELSE (IF Head(s) = e THEN 1 ELSE 0) + Count(Tail(s), e)

Has(s, e) == \E i \in 1..Len(s) : s[i] = e

Last(s) == s[Len(s)]

LockEvents == {"lock_ok", "lock_busy", "lock_io_err"}
LockFailures == LockEvents \ {"lock_ok"}
OfficialErrors == {"official_err", "official_err_perm", "official_err_flake"}

RECURSIVE CountIn(_, _)
CountIn(s, E) ==
    IF s = <<>> THEN 0
    ELSE (IF Head(s) \in E THEN 1 ELSE 0) + CountIn(Tail(s), E)

OtherHolds(c) == \E d \in Chk \ {c} : lock[d]

HoldingPcs ==
    {"official1_run", "official_sleep", "official2_run",
     "aur1_run", "aur_sleep", "aur2_run", "notify", "return_ok"}

\* The last lock attempt entered in a log.
LockEventOf(s) ==
    s[CHOOSE i \in 1..Len(s) :
        s[i] \in LockEvents /\ \A j \in (i + 1)..Len(s) : s[j] \notin LockEvents]

Prefix(s, i) == SubSeq(s, 1, i - 1)

OfficialResolved(t) ==
    Has(t, "official_ok") \/ CountIn(t, OfficialErrors) = 2

AurResolved(t) ==
    ~Has(t, "aur_start") \/ Has(t, "aur_ok") \/ Count(t, "aur_err") = 2

AurEnabled ==
    config.include_aur_updates /\ config.package_manager \in {"Paru", "Yay"}

----------------------------------------------------------------------------
\* Claims

\* C1: mutual exclusion. In every reachable state at most one check_updates
\* invocation, of whatever instance, holds the exclusive lock on the lock
\* file.
MutualExclusion == Cardinality({c \in Chk : lock[c]}) <= 1

\* One invocation holds the lock while another was refused it.
MutualExclusionWitness ==
    \E c, d \in Chk :
        /\ c # d
        /\ lock[c]
        /\ pc[d] = "lock_sleep"
        /\ Last(log[d]) = "lock_busy"

\* C2: acquire_lock never blocks. An attempt can always be made at once;
\* barring an I/O error on the lock file it fails with the contention error
\* exactly while another handle holds the lock and succeeds otherwise, so
\* it succeeds again once the holder's handle is dropped, cycle after cycle.
LockNeverBlocks ==
    /\ [](\A c \in Chk :
            /\ pc[c] = "acquire1" =>
                 ENABLED (AcquireLockFirst(c)
                          /\ LockEventOf(log'[c]) =
                               IF OtherHolds(c) THEN "lock_busy" ELSE "lock_ok")
            /\ pc[c] = "lock_sleep" =>
                 ENABLED (AcquireLockRetry(c)
                          /\ LockEventOf(log'[c]) =
                               IF OtherHolds(c) THEN "lock_busy" ELSE "lock_ok"))
    /\ [][\A c \in Chk :
            CountIn(log'[c], LockEvents) > CountIn(log[c], LockEvents) =>
               LET ev == LockEventOf(log'[c]) IN
               /\ OtherHolds(c) => ev \in {"lock_busy", "lock_io_err"}
               /\ ~OtherHolds(c) => ev \in {"lock_ok", "lock_io_err"}
               /\ lock'[c] <=> ev = "lock_ok"]_vars

\* An invocation was refused the lock while it was held and obtained it on
\* the next attempt, after the holder had dropped its handle.
LockNeverBlocksWitness ==
    \E c \in Chk :
        /\ lock[c]
        /\ Len(log[c]) >= 3
        /\ log[c][1] = "lock_busy"
        /\ log[c][3] = "lock_ok"

\* C3: the lock is never leaked. An invocation holds the lock only while it
\* runs between a successful acquire_lock and its return; once it has
\* returned (Ok or Err), and whenever it never obtained the lock, it holds
\* none, so a finished check blocks nobody.
LockNeverLeaked == \A c \in Chk : lock[c] => pc[c] \in HoldingPcs

\* A check has returned Ok and another invocation holds the lock.
LockNeverLeakedWitness ==
    \E c, d \in Chk :
        /\ c # d
        /\ pc[c] = "returned"
        /\ result[c].status = "Ok"
        /\ lock[d]

\* C4: lock retry policy. At most two acquisition attempts; the second only
\* after the first failed and the delay elapsed; when both fail the check
\* returns "Update check already in progress", having run no official or AUR
\* query and written no sync notification.
LockRetryPolicy ==
    /\ [](\A c \in Chk :
            LET s == log[c] IN
            /\ CountIn(s, LockEvents) <= 2
            /\ CountIn(s, LockEvents) >= 1 => s[1] \in LockEvents
            /\ (CountIn(s, LockEvents) = 2 \/ Has(s, "lock_delay")) =>
                 /\ s[1] \in LockFailures
                 /\ s[2] = "lock_delay"
                 /\ s[3] \in LockEvents
            /\ pc[c] = "return_err" <=> CountIn(s, LockFailures) = 2
            /\ pc[c] = "return_err" =>
                 /\ ~Has(s, "official_start")
                 /\ ~Has(s, "aur_start")
                 /\ ~Has(s, "notify")
                 /\ ~lock[c]
            /\ result[c].status = "Err" =>
                 result[c].error = "Update check already in progress")
    /\ [][\A c \in Chk :
            /\ (pc[c] = "return_err" /\ pc'[c] # "return_err") =>
                 /\ pc'[c] = "returned"
                 /\ result'[c].status = "Err"
                 /\ sync_file' = sync_file
            /\ (result[c].status # "Err" /\ result'[c].status = "Err") =>
                 pc[c] = "return_err"]_vars

\* Both attempts failed and the check returned the error.
LockRetryPolicyWitness ==
    \E c \in Chk :
        /\ pc[c] = "returned"
        /\ result[c].error = "Update check already in progress"

\* C5: partial-failure tolerance. When the official query fails on its first
\* attempt and on its retry, the check is not aborted: official_updates stays
\* 0 with no official package in the list, the AUR phase still runs when it
\* is enabled, and the check aggregates, notifies and returns Ok.
PartialFailureTolerance ==
    /\ [](\A c \in Chk :
            LET s == log[c] IN
            CountIn(s, OfficialErrors) = 2 =>
               /\ pc[c] \in {"aur1_run", "aur_sleep", "aur2_run",
                             "notify", "return_ok"}
               /\ update_info[c].official_updates = 0
               /\ Len(update_info[c].packages) = update_info[c].aur_updates
               /\ AurEnabled => Has(s, "aur_start")
               /\ pc[c] \in {"notify", "return_ok"} => Has(s, "total")
               /\ pc[c] = "return_ok" => Has(s, "notify"))
    /\ [][\A c \in Chk :
            (pc[c] = "return_ok" /\ pc'[c] # "return_ok") =>
               /\ pc'[c] = "returned"
               /\ result'[c].status = "Ok"
               /\ update_info'[c] = update_info[c]]_vars

\* The official query failed twice, the AUR query found updates, and the
\* check is about to return Ok.
PartialFailureToleranceWitness ==
    \E c \in Chk :
        /\ pc[c] = "return_ok"
        /\ CountIn(log[c], OfficialErrors) = 2
        /\ Has(log[c], "aur_ok")
        /\ update_info[c].aur_updates > 0
        /\ update_info[c].total_updates = update_info[c].aur_updates

\* The events of s after position i.
After(s, i) == SubSeq(s, i + 1, Len(s))

\* C6: a missing flake.lock is an immediate failure of the operation: once
\* the official query has failed for it, no further query is issued and the
\* check does not go on to aggregate, notify and return Ok.
FlakeLockMissingIsFatal ==
    \A c \in Chk :
        \A i \in 1..Len(log[c]) :
            log[c][i] = "official_err_flake" =>
                /\ ~Has(After(log[c], i), "official_start")
                /\ ~Has(After(log[c], i), "aur_start")
                /\ ~Has(After(log[c], i), "total")

\* C7: a permission failure of the privileged NixOS channels check is not
\* retried and reaches the caller: once the query has failed for it, the
\* query is not issued again, the privileged operation is not run again,
\* and the check does not go on to aggregate, notify and return Ok.
PermissionFailureSurfaced ==
    \A c \in Chk :
        \A i \in 1..Len(log[c]) :
            log[c][i] = "official_err_perm" =>
                /\ ~Has(After(log[c], i), "official_start")
                /\ ~Has(After(log[c], i), "priv")
                /\ ~Has(After(log[c], i), "total")

\* C8: contention is distinguished from other I/O errors: an acquire_lock
\* that failed for another reason than contention is not retried as
\* contention, and "Update check already in progress" is reported only for
\* a lock another holder had.
ContentionDistinguished ==
    \A c \in Chk :
        /\ \A i \in 1..Len(log[c]) :
             log[c][i] = "lock_io_err" =>
                 CountIn(After(log[c], i), LockEvents) = 0
        /\ result[c].error = "Update check already in progress" =>
             result[c].cause = "Another instance is checking for updates"

\* C9: phase ordering. No AUR query starts before the official phase has
\* resolved (a success, or the failure of the retry); nothing of the official
\* phase happens once the AUR phase has begun; a query that was issued
\* resolves before anything else is issued; total_updates is assigned only
\* after both phases have resolved.
PhaseOrdering ==
    \A c \in Chk :
        LET s == log[c] IN
        /\ \A i \in 1..Len(s) :
             /\ s[i] = "aur_start" => OfficialResolved(Prefix(s, i))
             /\ s[i] = "total" =>
                  /\ OfficialResolved(Prefix(s, i))
                  /\ AurResolved(Prefix(s, i))
                  /\ AurEnabled => Has(Prefix(s, i), "aur_start")
             /\ s[i] \in {"official_start", "official_delay", "official_ok",
                          "priv"} \cup OfficialErrors =>
                  /\ ~Has(Prefix(s, i), "aur_start")
                  /\ ~Has(Prefix(s, i), "total")
             /\ s[i] \in {"aur_start", "aur_delay", "aur_ok", "aur_err"} =>
                  ~Has(Prefix(s, i), "total")
             /\ (s[i] = "official_start" /\ i < Len(s)) =>
                  s[i + 1] \in {"official_ok", "priv"} \cup OfficialErrors
             /\ (s[i] = "aur_start" /\ i < Len(s)) =>
                  s[i + 1] \in {"aur_ok", "aur_err"}
        /\ (pc[c] \in HoldingPcs /\ ~Has(s, "total")) =>
             update_info[c].total_updates = 0

\* Both phases found an update and the total was assigned after the AUR
\* query resolved.
PhaseOrderingWitness ==
    \E c \in Chk :
        /\ pc[c] = "return_ok"
        /\ Has(log[c], "official_ok")
        /\ Has(log[c], "aur_ok")
        /\ update_info[c].official_updates > 0
        /\ update_info[c].aur_updates > 0
        /\ update_info[c].total_updates = 2

\* C10: AUR phase gating. In a check that obtained the lock the AUR query
\* runs if and only if include_aur is set and the manager is Paru or Yay,
\* whether the official phase succeeded or failed; the AUR query is retried
\* once after a failure and the check continues when the retry fails too.
AurGating ==
    \A c \in Chk :
        LET s == log[c] IN
        /\ Has(s, "aur_start") => AurEnabled
        /\ (AurEnabled /\ OfficialResolved(s)) => Has(s, "aur_start")
        /\ Count(s, "aur_start") <= 2
        /\ Count(s, "aur_start") = Count(s, "aur_err") + 1 =>
             (pc[c] \in {"aur1_run", "aur2_run"} \/ Has(s, "aur_ok"))
        /\ \A i \in 1..Len(s) :
             (s[i] = "aur_start" /\ Has(Prefix(s, i), "aur_start")) =>
                 /\ s[i - 1] = "aur_delay"
                 /\ s[i - 2] = "aur_err"
        /\ Count(s, "aur_err") = 1 =>
             (pc[c] \in {"aur_sleep", "aur2_run"} \/ Has(s, "aur_ok"))
        /\ Count(s, "aur_err") = 2 => pc[c] \in {"notify", "return_ok"}
        /\ (pc[c] \in {"notify", "return_ok"} /\ ~AurEnabled) =>
             update_info[c].aur_updates = 0

\* An AUR helper with include_aur set: the official query failed twice and
\* the AUR query, retried after a failure, still found an update.
AurGatingWitness ==
    \E c \in Chk :
        /\ pc[c] = "return_ok"
        /\ config.package_manager = "Paru"
        /\ CountIn(log[c], OfficialErrors) = 2
        /\ Count(log[c], "aur_err") = 1
        /\ Has(log[c], "aur_ok")
        /\ update_info[c].aur_updates > 0

\* C11: for every UpdateInfo check_updates returns, total_updates equals the
\* length of packages and equals official_updates + aur_updates, and the
\* packages of the official phase precede those of the AUR phase.
AggregateConsistent ==
    \A c \in Chk :
        pc[c] \in {"notify", "return_ok"}
        \/ (pc[c] = "returned" /\ result[c].status = "Ok") =>
            LET info == update_info[c] IN
            /\ info.total_updates = Len(info.packages)
            /\ info.total_updates = info.official_updates + info.aur_updates
            /\ \A k \in 1..Len(info.packages) :
                 info.packages[k].is_aur <=> k > info.official_updates

\* A check returned an official package followed by an AUR package.
AggregateConsistentWitness ==
    \E c \in Chk :
        /\ pc[c] = "returned"
        /\ result[c].status = "Ok"
        /\ update_info[c].official_updates = 1
        /\ update_info[c].aur_updates = 1
        /\ update_info[c].total_updates = 2
        /\ ~update_info[c].packages[1].is_aur
        /\ update_info[c].packages[2].is_aur

\* C12: an invocation that obtained the lock calls notify_check_completed
\* exactly once, after the total was assigned and before it returns, whether
\* or not a phase degraded; an invocation that did not obtain the lock never
\* calls it.
NotifyExactlyOnce ==
    /\ [](\A c \in Chk :
            LET s == log[c] IN
            /\ Count(s, "notify") <= 1
            /\ Has(s, "notify") => /\ Has(s, "lock_ok")
                                   /\ Has(s, "total")
                                   /\ Last(s) = "notify"
            /\ pc[c] = "return_ok" => Count(s, "notify") = 1
            /\ pc[c] = "notify" => ~Has(s, "notify")
            /\ pc[c] = "return_err" => ~Has(s, "notify"))
    /\ [][\A c \in Chk :
            /\ (result[c].status # "Ok" /\ result'[c].status = "Ok") =>
                 Count(log[c], "notify") = 1
            /\ (result[c].status # "Err" /\ result'[c].status = "Err") =>
                 /\ ~Has(log[c], "notify")
                 /\ ~Has(log[c], "lock_ok")
            /\ sync_file' # sync_file =>
                 \E d \in Chk : pc[d] = "notify" /\ pc'[d] = "return_ok"]_vars

\* Both phases degraded to zero results and the check, having notified once,
\* is about to return.
NotifyExactlyOnceWitness ==
    \E c \in Chk :
        /\ pc[c] = "return_ok"
        /\ CountIn(log[c], OfficialErrors) = 2
        /\ Count(log[c], "aur_err") = 2
        /\ Count(log[c], "notify") = 1
        /\ sync_file = "timestamp"

\* C17: with several applets left to themselves after one initiating check
\* (no timer, no user, no terminal), the system quiesces: from some moment
\* on no check_updates runs and no message or event waits, however long the
\* checks take.
Quiescent ==
    /\ \A c \in Chk : pc[c] = "idle"
    /\ \A i \in Inst :
         /\ watcher[i].rx = 0
         /\ inbox[i] = inbox_new

NoMutualRetriggering == <>[]Quiescent

\* C13: while a watcher is subscribed, every event on the sync file becomes
\* exactly one Message::SyncFileChanged: a message is yielded only for an
\* event taken from the channel and one event gives one message, a
\* notification that writes the file reaches every subscribed watcher, and
\* no event stays in the channel forever.
OneMessagePerEvent ==
    /\ [][\A i \in Inst :
            /\ watcher'[i].rx < watcher[i].rx =>
                  /\ watcher'[i].rx = watcher[i].rx - 1
                  /\ inbox'[i].SyncFileChanged = inbox[i].SyncFileChanged + 1
            /\ inbox'[i].SyncFileChanged > inbox[i].SyncFileChanged =>
                  /\ inbox'[i].SyncFileChanged = inbox[i].SyncFileChanged + 1
                  /\ watcher'[i].rx = watcher[i].rx - 1
            /\ (watcher[i].pc = "watching"
                   /\ sync_file # "timestamp" /\ sync_file' = "timestamp") =>
                  watcher'[i].rx > watcher[i].rx]_vars
    /\ \A i \in Inst : (watcher[i].rx > 0) ~> (watcher[i].rx = 0)

\* A notification has raised two events and both have become messages.
OneMessagePerEventWitness ==
    /\ sync_file = "timestamp"
    /\ watcher[Applet].pc = "watching"
    /\ watcher[Applet].rx = 0
    /\ inbox[Applet].SyncFileChanged = 2

\* C14: the suppression is one-shot. The first Message::SyncFileChanged an
\* applet handles is ignored (nothing is sent, nothing else changes) and
\* clears ignore_next_sync; the flag is never set again; and a later
\* message is not ignored on account of the flag: with no check running and
\* none recorded it sends Message::CheckForUpdates.
OneShotSuppression ==
    [][\A i \in Inst :
         LET handled == inbox'[i].SyncFileChanged < inbox[i].SyncFileChanged
             a == applet[i]
         IN /\ ~a.ignore_next_sync => ~applet'[i].ignore_next_sync
            /\ handled /\ a.ignore_next_sync =>
                  /\ applet'[i] = [a EXCEPT !.ignore_next_sync = FALSE]
                  /\ inbox'[i].CheckForUpdates = inbox[i].CheckForUpdates
            /\ handled /\ ~a.ignore_next_sync =>
                  /\ applet'[i] = a
                  /\ (~a.checking_updates /\ ~a.last_check.is_some) =>
                        inbox'[i].CheckForUpdates =
                            inbox[i].CheckForUpdates + 1]_vars

\* One notification by a peer has raised two events: the first was
\* ignored, the second has sent Message::CheckForUpdates.
OneShotSuppressionWitness ==
    /\ triggers = MaxTriggers - 1
    /\ ~applet[Applet].ignore_next_sync
    /\ ~applet[Applet].last_check.is_some
    /\ inbox[Applet].CheckForUpdates = 1

\* C15: the event the suppression discards is an artifact of the applet's
\* own set-up, never a real notification: the first event to reach an
\* applet whose ignore_next_sync is still set is not raised by a
\* notify_check_completed.
SuppressedIsSetupArtifact ==
    [][\A i \in Inst :
         (/\ applet[i].ignore_next_sync
          /\ watcher[i].rx = 0
          /\ inbox[i].SyncFileChanged = 0
          /\ watcher'[i].rx > 0)
         => ~(\E c \in Chk : pc[c] = "notify" /\ pc'[c] = "return_ok")]_vars

\* C16: the debounce threshold. A Message::SyncFileChanged that is not
\* suppressed and finds no check running sends Message::CheckForUpdates
\* exactly when no check is recorded or the last one completed
\* SYNC_DEBOUNCE_SECS or more ago; it is skipped exactly when the last check
\* completed less than SYNC_DEBOUNCE_SECS ago.
DebounceThreshold ==
    [][\A i \in Inst :
         LET a == applet[i] IN
         (/\ inbox'[i].SyncFileChanged < inbox[i].SyncFileChanged
          /\ ~a.ignore_next_sync
          /\ ~a.checking_updates)
         => (inbox'[i].CheckForUpdates = inbox[i].CheckForUpdates + 1
               <=> (~a.last_check.is_some
                      \/ a.last_check.elapsed >= SYNC_DEBOUNCE_SECS))]_vars

\* C18: within one applet at most one invocation of check_updates is in
\* flight (spawned and not yet returned) at any time, whatever messages the
\* applet is given.
InFlight(i) ==
    {c \in Chk : owner[c] = i /\ pc[c] \notin {"idle", "returned"}}

OneCheckInFlight == \A i \in Inst : Cardinality(InFlight(i)) <= 1

\* C19: the applet holds snapshots. Its update_info changes, and its
\* last_check is set, only when the Ok result of one of its own invocations
\* is handled: update_info is then replaced by that invocation's UpdateInfo
\* as a whole and last_check is set to now. An Err result leaves both as
\* they were. The UpdateInfo an applet holds is never partially populated:
\* its total is the length of its list and the sum of its two counts.
SnapshotSemantics ==
    /\ [][\A i \in Inst :
            LET a == applet[i]
                b == applet'[i]
            IN (\/ b.update_info # a.update_info
                \/ b.last_check.is_some # a.last_check.is_some
                \/ b.last_check.elapsed < a.last_check.elapsed)
               => \E c \in Chk :
                     /\ owner[c] = i
                     /\ pc[c] = "returned" /\ pc'[c] = "idle"
                     /\ result[c].status = "Ok"]_vars
    /\ [][\A c \in Chk :
            (pc[c] = "returned" /\ pc'[c] = "idle" /\ owner[c] # 0) =>
               LET a == applet[owner[c]]
                   b == applet'[owner[c]]
               IN IF result[c].status = "Ok"
                  THEN /\ b.update_info = update_info[c]
                       /\ b.last_check = Some(0)
                  ELSE /\ b.update_info = a.update_info
                       /\ b.last_check = a.last_check]_vars
    /\ [](\A i \in Inst :
            LET u == applet[i].update_info IN
            /\ u.total_updates = Len(u.packages)
            /\ u.total_updates = u.official_updates + u.aur_updates)

\* An applet that holds the updates of an earlier check has been handed the
\* error of a later one.
SnapshotSemanticsWitness ==
    /\ applet[Applet].update_info.total_updates > 0
    /\ applet[Applet].last_check.is_some
    /\ applet[Applet].error_message # ""
    /\ ~applet[Applet].checking_updates

\* C20: the sync file is only ever written by the truncate-and-rewrite of
\* a timestamp, so whatever notifications and watcher set-ups interleave,
\* a file that holds a timestamp holds one after every further step.
SyncFileKeepsTimestamp ==
    [][sync_file = "timestamp" => sync_file' = "timestamp"]_vars

\* C28: has_updates() is true if and only if total_updates > 0: false at
\* exactly 0, true at 1 and above.
HasUpdatesIffPositive ==
    call.fn = "has_updates" => (ret <=> call.info.total_updates > 0)

\* The boundary: one update, and has_updates() has answered true.
HasUpdatesIffPositiveWitness ==
    /\ call.fn = "has_updates"
    /\ call.info.total_updates = 1
    /\ ret = TRUE

\* C24: the Arch grammar. For Pacman, Paru and Yay and every line that is
\* not noise, split on whitespace: with "->" as token at position 2 (and a
\* token after it) the entry is {token 0, token 1, token 3}; in every other
\* case a line of at least two tokens gives {token 0, "unknown", token 1};
\* is_aur is the flag passed in.
ArchLineGrammar ==
    (/\ call.fn = "parse_package_line"
     /\ call.pm \in {"Pacman", "Paru", "Yay"}
     /\ ~is_header(call.line))
    => LET t == split_whitespace(call.line) IN
       IF Len(t) >= 4 /\ t[3] = Text.arrow
       THEN ret = <<PackageUpdate_text(t[1], t[2], t[4], call.is_aur)>>
       ELSE Len(t) >= 2 =>
              ret = <<PackageUpdate_text(t[1], Text.unknown, t[2],
                                         call.is_aur)>>

\* C25: for each of the nine package managers a line that is blank or
\* starts with "Listing...", "Done" or "WARNING:" yields no entry.
NoiseYieldsNoEntry ==
    (/\ call.fn = "parse_package_line"
     /\ \/ trim(call.line) = <<>>
        \/ starts_with(call.line, Text.Listing)
        \/ starts_with(call.line, Text.Done)
        \/ starts_with(call.line, Text.WARNING))
    => ret = <<>>

\* A line that starts with "WARNING:" and goes on like a line of apt has
\* been given to the parser of Apt: no entry.
NoiseYieldsNoEntryWitness ==
    /\ call.fn = "parse_package_line"
    /\ call.pm = "Apt"
    /\ starts_with(call.line, Text.WARNING)
    /\ contains(call.line, Text.upgradable)
    /\ ret = <<>>

\* The entries of the lines of stdout that parse, in the order of the lines.
EntriesOf(pm, stdout, is_aur) ==
    LET fit == SelectSeq(lines(stdout),
                   LAMBDA l : parse_package_line_text(pm, l, is_aur) # <<>>)
    IN [k \in 1..Len(fit) |-> parse_package_line_text(pm, fit[k], is_aur)[1]]

\* The exit code (none, for a child that was killed) is special to the
\* command that was run.
SpecialExit(cmd, code) ==
    \/ cmd = "checkupdates" /\ code = 2
    \/ cmd \in {"paru", "yay"} /\ code = 1
    \/ cmd = "dnf" /\ code = 100

\* C21: the special exit codes. checkupdates with exit 2 and paru or yay
\* with exit 1 give the empty list and no error, whatever stdout holds; dnf
\* with exit 100 is no error and its stdout is parsed.
ExitCodeSpecialCases ==
    (call.fn = "parse_update_output" /\ call.output.spawn) =>
        /\ (call.cmd = "checkupdates" /\ call.output.code = 2)
              => ret = Ok_text(<<>>)
        /\ (call.cmd \in {"paru", "yay"} /\ call.output.code = 1)
              => ret = Ok_text(<<>>)
        /\ (call.cmd = "dnf" /\ call.output.code = 100)
              => /\ ret.ok
                 /\ ret.packages
                      = EntriesOf(call.pm, call.output.stdout, call.is_aur)

\* dnf has left with 100 and a line of stdout has become an entry.
ExitCodeSpecialCasesWitness ==
    /\ call.fn = "parse_update_output"
    /\ call.cmd = "dnf"
    /\ call.output.spawn
    /\ call.output.code = 100
    /\ ret.ok
    /\ Len(ret.packages) = 1

\* C22: any other exit code that is not zero. With stdout empty after trim
\* the call fails and the error carries the exit code and stderr; with
\* anything else in stdout it does not fail and returns the parsed entries.
OtherExitCodes ==
    (/\ call.fn = "parse_update_output"
     /\ call.output.spawn
     /\ call.output.code # 0
     /\ ~SpecialExit(call.cmd, call.output.code))
    => IF trim(call.output.stdout) = <<>>
       THEN /\ ~ret.ok
            /\ ret.exit_code = call.output.code
            /\ ret.stderr = call.output.stderr
       ELSE /\ ret.ok
            /\ ret.packages
                 = EntriesOf(call.pm, call.output.stdout, call.is_aur)

\* apt has left with 3 and has still printed a line that parses.
OtherExitCodesWitness ==
    /\ call.fn = "parse_update_output"
    /\ call.cmd = "apt"
    /\ call.output.spawn
    /\ call.output.code = 3
    /\ ret.ok
    /\ Len(ret.packages) = 1

\* C23: a line that does not match is dropped and never made an error.
\* Whenever stdout is parsed, for every manager, the call succeeds and the
\* list holds, in order, the entries of the lines that match the manager's
\* grammar.
MismatchesDropped ==
    (/\ call.fn = "parse_update_output"
     /\ call.output.spawn
     /\ \/ call.output.code = 0
        \/ call.cmd = "dnf" /\ call.output.code = 100
        \/ /\ ~SpecialExit(call.cmd, call.output.code)
           /\ trim(call.output.stdout) # <<>>)
    => /\ ret.ok
       /\ ret.packages = EntriesOf(call.pm, call.output.stdout, call.is_aur)

\* Two lines on a clean exit: the first is no header and does not match,
\* the second matches and is the only entry.
MismatchesDroppedWitness ==
    /\ call.fn = "parse_update_output"
    /\ call.output.spawn
    /\ call.output.code = 0
    /\ LET ls == lines(call.output.stdout) IN
       /\ Len(ls) = 2
       /\ ~is_header(ls[1])
       /\ parse_package_line_text(call.pm, ls[1], call.is_aur) = <<>>
       /\ ret.ok
       /\ ret.packages = parse_package_line_text(call.pm, ls[2], call.is_aur)
       /\ Len(ret.packages) = 1

\* A line of the output announces what will be built or fetched.
AnnouncesWork(output) ==
    \/ contains(output, Text.drv_plural)
    \/ contains(output, Text.drv_single)
    \/ contains(output, Text.paths_plural)
    \/ contains(output, Text.paths_single)

\* C26: parsing the summary of a NixOS rebuild. No entry whenever the output
\* contains "up to date" or "already built", and whenever it announces
\* neither derivations to build nor paths to fetch; never more than two
\* entries, "System Update" before "Downloads".
NixosSummaryEntries ==
    call.fn = "parse_nixos_rebuild_output" =>
        /\ (contains(call.output, Text.up_to_date)
            \/ contains(call.output, Text.already_built)) => ret = <<>>
        /\ ~AnnouncesWork(call.output) => ret = <<>>
        /\ Len(ret) <= 2
        /\ Len(ret) = 2 => /\ ret[1].name = Text.System_Update
                           /\ ret[2].name = Text.Downloads
        /\ Len(ret) = 1 => ret[1].name \in {Text.System_Update, Text.Downloads}

\* The place of a manager in the order of preference the registry states.
PreferencePos(pm) ==
    CASE pm = "Paru" -> 1 [] pm = "Yay" -> 2 [] pm = "Pacman" -> 3
      [] pm = "Apt" -> 4 [] pm = "Dnf" -> 5 [] pm = "Zypper" -> 6
      [] pm = "Apk" -> 7 [] pm = "NixOS" -> 8 [] pm = "Flatpak" -> 9

\* C27: the order of preference. In every system detect_available returns
\* exactly the managers that are available, each once, in the order Paru,
\* Yay, Pacman, Apt, Dnf, Zypper, Apk, NixOS, Flatpak; get_preferred returns
\* the first of them, and none if and only if no manager is available.
RegistryPreferenceOrder ==
    /\ call.fn = "detect_available" =>
        /\ \A pm \in PackageManagers :
              (\E i \in 1..Len(ret) : ret[i] = pm)
                 <=> is_available(pm, call.sys)
        /\ \A i, j \in 1..Len(ret) :
              i < j => PreferencePos(ret[i]) < PreferencePos(ret[j])
    /\ call.fn = "get_preferred" =>
        LET avail == {pm \in PackageManagers : is_available(pm, call.sys)}
        IN /\ ret = <<>> <=> avail = {}
           /\ ret # <<>> =>
                /\ Len(ret) = 1
                /\ ret[1] \in avail
                /\ \A pm \in avail :
                      PreferencePos(ret[1]) <= PreferencePos(pm)

\* pacman, yay and flatpak are in /usr/bin, paru is in /tmp, NixOS has
\* nixos-rebuild but neither mark: yay is preferred.
RegistryPreferenceOrderWitness ==
    /\ call.fn = "get_preferred"
    /\ call.sys.which["Paru"].success
    /\ ~is_available("Paru", call.sys)
    /\ call.sys.nixos_rebuild
    /\ {pm \in PackageManagers : is_available(pm, call.sys)}
          = {"Pacman", "Yay", "Flatpak"}
    /\ ret = <<"Yay">>

\* The events of s before the k-th e.
Before(s, e, k) ==
    Prefix(s, CHOOSE i \in 1..Len(s) :
                 s[i] = e /\ Count(SubSeq(s, 1, i), e) = k)

\* C29: bounded retries and termination. Given that every command returns,
\* every check_updates returns in the end, after at most 2 lock attempts, at
\* most 2 official queries and at most 2 AUR queries; the second attempt of
\* a step is made only after its first attempt failed.
BoundedRetries ==
    /\ [](\A c \in Chk :
            LET s == log[c] IN
            /\ CountIn(s, LockEvents) <= 2
            /\ Count(s, "official_start") <= 2
            /\ Count(s, "aur_start") <= 2
            /\ CountIn(s, LockEvents) = 2 =>
                 /\ s[1] \in LockFailures
                 /\ CountIn(s, LockFailures) >= 1
            /\ Count(s, "official_start") = 2 =>
                 LET t == Before(s, "official_start", 2) IN
                 /\ CountIn(t, OfficialErrors) = 1
                 /\ ~Has(t, "official_ok")
            /\ Count(s, "aur_start") = 2 =>
                 LET t == Before(s, "aur_start", 2) IN
                 /\ Count(t, "aur_err") = 1
                 /\ ~Has(t, "aur_ok"))
    /\ \A c \in Chk : (pc[c] = "acquire1") ~> (pc[c] = "returned")

\* Every step was made twice and the check is about to return.
BoundedRetriesWitness ==
    \E c \in Chk :
        /\ pc[c] = "return_ok"
        /\ CountIn(log[c], LockEvents) = 2
        /\ Count(log[c], "official_start") = 2
        /\ Count(log[c], "aur_start") = 2

\* The place of the first e in s, 0 if there is none.
FirstAt(s, e) ==
    IF Has(s, e) THEN CHOOSE i \in 1..Len(s) : s[i] = e /\ ~Has(Prefix(s, i), e)
    ELSE 0

\* The place of the last event of E in s, 0 if there is none.
LastAt(s, E) ==
    IF CountIn(s, E) > 0
    THEN CHOOSE i \in 1..Len(s) : s[i] \in E /\ CountIn(After(s, i), E) = 0
    ELSE 0

\* C30: the order of the steps of a check that obtained the lock: the
\* official phase, the AUR phase, the aggregation, the sync notification,
\* the release of the lock. The notification is written while the check that
\* notifies holds the lock, and the lock is released only after it.
StepOrder ==
    /\ [](\A c \in Chk :
            LET s == log[c]
                official == {"official_start", "official_ok", "official_delay"}
                               \cup OfficialErrors
                aur == {"aur_start", "aur_ok", "aur_err", "aur_delay"}
            IN /\ Has(s, "aur_start") =>
                    LastAt(s, official) < FirstAt(s, "aur_start")
               /\ Has(s, "total") =>
                    /\ LastAt(s, official) < FirstAt(s, "total")
                    /\ LastAt(s, aur) < FirstAt(s, "total")
                    /\ CountIn(s, official) > 0
               /\ Has(s, "notify") =>
                    /\ Has(s, "total")
                    /\ FirstAt(s, "total") < FirstAt(s, "notify")
                    /\ lock[c]
               /\ pc[c] = "notify" => lock[c])
    /\ [][\A c \in Chk :
            /\ (~Has(log[c], "notify") /\ Has(log'[c], "notify")) =>
                  lock[c] /\ lock'[c]
            /\ (lock[c] /\ ~lock'[c]) =>
                  /\ Last(log[c]) = "notify"
                  /\ result'[c].status = "Ok"]_vars

\* Both phases ran, the notification is written and the lock is still held.
StepOrderWitness ==
    \E c \in Chk :
        /\ lock[c]
        /\ Has(log[c], "aur_start")
        /\ Last(log[c]) = "notify"
        /\ sync_file = "timestamp"

\* C31: every query check_updates issues to a package manager (official or
\* AUR, first attempt or retry) runs while the invocation that issued it
\* holds the lock, so no two invocations have a query running at the same
\* time.
QueryPcs == {"official1_run", "official2_run", "aur1_run", "aur2_run"}

QueriesUnderLock ==
    /\ \A c \in Chk : pc[c] \in QueryPcs => lock[c]
    /\ Cardinality({c \in Chk : pc[c] \in QueryPcs}) <= 1

\* The retry of the AUR query is running under the lock while another
\* invocation, refused the lock, waits to try again.
QueriesUnderLockWitness ==
    \E c, d \in Chk :
        /\ pc[c] = "aur2_run"
        /\ lock[c]
        /\ pc[d] = "lock_sleep"

\* C32: checking_updates tracks the checks in flight: in every state the
\* flag of an applet is true while a check_updates task it started has not
\* yet delivered its UpdatesChecked result.
FlagTracksInFlight ==
    \A i \in Inst :
        (\E c \in Chk : owner[c] = i /\ pc[c] # "idle")
            => applet[i].checking_updates

\* C33: Message::Timer, and a Message::SyncFileChanged that is not the
\* suppressed first one, never start a check while checking_updates is true
\* or while no package manager is configured; in those cases they leave the
\* applet as it was.
Blocked ==
    /\ call.fn = "update"
    /\ call.message = "SyncFileChanged" => ~call.app.ignore_next_sync
    /\ call.app.checking_updates \/ call.package_manager = <<>>

NoCheckWhileBusyOrUnconfigured ==
    Blocked => (~ret.recheck /\ ret.applet = call.app)

\* The timer fired in an applet that is checking and has a manager
\* configured: nothing changed and no check started.
NoCheckWhileBusyOrUnconfiguredWitness ==
    /\ Blocked
    /\ call.message = "Timer"
    /\ call.app.checking_updates
    /\ call.package_manager # <<>>
    /\ ~ret.recheck

\* C35: the counts agree with the flags. In every UpdateInfo check_updates
\* returns, official_updates is the number of packages with is_aur false
\* and aur_updates the number of packages with is_aur true.
Flagged(info, aur) ==
    Cardinality({k \in 1..Len(info.packages) : info.packages[k].is_aur = aur})

CountsAgreeWithFlags ==
    \A c \in Chk :
        (pc[c] = "returned" /\ result[c].status = "Ok") =>
            /\ update_info[c].official_updates = Flagged(update_info[c], FALSE)
            /\ update_info[c].aur_updates = Flagged(update_info[c], TRUE)

\* A check has returned a list holding an official and an AUR package.
CountsAgreeWithFlagsWitness ==
    \E c \in Chk :
        /\ pc[c] = "returned"
        /\ result[c].status = "Ok"
        /\ update_info[c].official_updates = 1
        /\ update_info[c].aur_updates = 1
        /\ Flagged(update_info[c], TRUE) = 1

\* C37: for an item height below MIN_ITEM_HEIGHT, visible_range returns an
\* end index strictly larger than the one it returns for MIN_ITEM_HEIGHT
\* with the same scroll offset, viewport height and buffer.
SmallerHeightLargerEnd ==
    (call.fn = "visible_range" /\ call.item_height < MIN_ITEM_HEIGHT) =>
        ret[2] > visible_range(call.state, MIN_ITEM_HEIGHT, call.buffer)[2]

\* C34: the start-up check happens exactly once. With auto_check_on_startup
\* enabled and a manager configured, or none configured and discovery
\* selecting one, exactly one start-up CheckForUpdates is issued, in
\* whatever order DiscoverPackageManagers, DelayedStartupCheck and the
\* resulting ConfigChanged are processed: never more than one, and one once
\* every message is processed.
StartupChecks(i) == inbox[i].StartupDelay + inbox[i].CheckForUpdates

StartupSettled(i) ==
    /\ inbox[i].DiscoverPackageManagers = 0
    /\ inbox[i].DelayedStartupCheck = 0
    /\ inbox[i].ConfigChanged = <<>>
    /\ inbox[i].StartupDelay = 0

FinishedAfterCommand ==
    \A t \in 1..MaxLaunches :
        terminal.run[t].task = "finished" =>
            terminal.run[t].command \in {"ended", "failed"}

============================================================================
